---- MODULE Spec2Model ----
(***************************************************************************)
(* workspace-utils (wsu): the process supervisor (ProcessRunner), the      *)
(* build cache (BuildCache) and the build orchestrator (buildCommand).     *)
(*                                                                         *)
(* ProcessRunner runs on a single-threaded event loop.  A driver           *)
(* (runParallel, runSequential, runBatches) executes synchronously until   *)
(* it awaits a promise that only a child event can settle; the 'close' or  *)
(* 'error' event of a child is delivered only while the driver is          *)
(* suspended, and the continuation of the driver runs (as microtasks)      *)
(* before the next event is delivered.                                     *)
(***************************************************************************)
EXTENDS FiniteSets, Integers, Sequences, TLC

----------------------------------------------------------------------------
(* Bounds of the model *)

\* largest number of commands handed to a driver in one call
MaxCommands == 3
\* largest number of batches handed to runBatches
MaxBatches == 2
\* largest concurrency bound handed to a driver
MaxConcurrency == 3
\* largest exit code a child exits with
MaxExitCode == 1

----------------------------------------------------------------------------
(* Generic helpers *)

Range(s) == {s[k] : k \in DOMAIN s}

RECURSIVE Flatten(_)
Flatten(ss) == IF ss = <<>> THEN <<>> ELSE Head(ss) \o Flatten(Tail(ss))

\* Array.prototype.splice(index, 1)
Splice(s, index) == [k \in 1..(Len(s) - 1) |-> IF k < index THEN s[k] ELSE s[k + 1]]

\* Array.prototype.filter
RECURSIVE FilterSeq(_, _)
FilterSeq(s, keep) ==
    IF s = <<>> THEN <<>>
    ELSE (IF Head(s) \in keep THEN <<Head(s)>> ELSE <<>>) \o FilterSeq(Tail(s), keep)

\* position of x in s (0 when absent): Array.prototype.indexOf, 1-based
IndexOf(s, x) == IF x \in Range(s) THEN CHOOSE k \in DOMAIN s : s[k] = x /\ \A j \in 1..(k - 1) : s[j] # x ELSE 0

----------------------------------------------------------------------------
(* State *)

VARIABLES
    mode,            \* which driver was called: "parallel", "sequential", "batches", or "none"
    batches,         \* the argument: a list of command lists (one list for parallel/sequential)
    concurrency,     \* the concurrency argument
    pc,              \* where the driver is
    bi,              \* runBatches: loop index i (1-based)
    ci,              \* runParallel / runSequential: loop index i (1-based)
    executing,       \* runParallel: executing (promises, named by their command)
    results,         \* runParallel / runSequential: results
    allResults,      \* runBatches: allResults
    returned,        \* what the driver returned (set when pc becomes "done")
    completedIndex,  \* waitForAny: the index it resolved with (0 while pending)
    activeChildren,  \* ProcessRunner.activeChildren
    settled,         \* the result each runCommand promise resolved with (NoResult before)
    spawned,         \* history: the commands in the order they were spawned
    ending,          \* history: how each child ended
    workspace,       \* WorkspaceInfo.packages: the list of PackageInfo
    files,           \* the files of each package directory: content, mtime, size
    manifest,        \* BuildCache.manifest.packages
    packageCaches,   \* BuildCache.packageCaches
    packageFileIndexes, \* BuildCache.packageFileIndexes
    manifestJson,    \* .wsu/manifest.json: its packages list (NoFile when absent)
    cacheJson,       \* .wsu/packages/<name>/cache.json (NoEntry when absent)
    filesJson,       \* .wsu/packages/<name>/files.json (NoIndex when absent)
    ops,             \* number of cache operations and file edits on the cache on its own
    edits,           \* number of file edits so far
    lastOp,          \* history: the last cache operation, its argument and the number
                     \* of entries before it
    bpc,             \* buildCommand: "idle" (not running), "building" (in runBatches), "exited"
    runs,            \* number of build invocations so far
    skippedPackages, \* buildCommand: skippedPackages (names)
    packagesToBuild, \* buildCommand: packagesToBuild (names)
    processExit,     \* exit code of the last build invocation
    lastEdit,        \* history: the last file edit since the last build finished, and the
                     \* number of invocations before it
    prevBuiltAll,    \* history: the number of the last invocation if it built every package
                     \* successfully and no file changed since, else 0
    graphPc,         \* the graph functions: "input", or which function was applied last
    sortResult,      \* what topologicalSort() returned: { order, cycles }
    batchResult,     \* what getBuildBatches() returned (ok = FALSE when it threw)
    targets,         \* the packages given to collectPackagesWithDependencies
    packagesWithDependencies, \* what collectPackagesWithDependencies returned
    nodes,           \* DependencyGraph.nodes of a graph that is built call by call
    calls,           \* number of calls made on that graph
    termPc,          \* terminateAll: "idle" (not called), "waiting" (in Promise.all), "returned"
    termChildren,    \* terminateAll: children, the copy of activeChildren it took
    timers,          \* terminateAll: the children whose graceMs timer has not fired yet
    signalled,       \* history: the children that terminateAll sent `signal` to
    killed,          \* history: the children that terminateAll sent SIGKILL to
    devPc,           \* devCommand: "idle" (nothing spawned yet), "running", "exited"
    devExit,         \* the exit code of the dev process (-1 while it runs)
    memberDirs,      \* history: the package.json of each member directory that
                     \* parseWorkspace found
    parsePc,         \* parseWorkspace: "idle" (not called), "loaded", "failed" (it threw)
    runArgs,         \* history: the script name and the filter the run command was called with
    runPc,           \* the run command: "idle" (not called), "running" (in the driver), "exited"
    runExit,         \* the exit code of the run process (-1 while it runs)
    invCall,         \* invalidateDependents run step by step: the name it was called
                     \* with and the cache it was called on (NoCall before the call)
    invStack,        \* its call stack: per call the dependents and the loop index
    invRemoved       \* history: the names it passed to invalidatePackage, in order

runnerVars == <<mode, batches, concurrency, pc, bi, ci, executing, results, allResults,
                returned, completedIndex, activeChildren, settled, spawned, ending>>

cacheVars == <<workspace, files, manifest, packageCaches, packageFileIndexes,
               manifestJson, cacheJson, filesJson, ops, edits, lastOp>>

buildVars == <<bpc, runs, skippedPackages, packagesToBuild, processExit, lastEdit, prevBuiltAll>>

graphVars == <<graphPc, sortResult, batchResult, targets, packagesWithDependencies, nodes, calls>>

termVars == <<termPc, termChildren, timers, signalled, killed>>

devVars == <<devPc, devExit>>

parseVars == <<memberDirs, parsePc>>

runVars == <<runArgs, runPc, runExit>>

invVars == <<invCall, invStack, invRemoved>>

nonRunnerVars == <<cacheVars, buildVars, graphVars, termVars, devVars, parseVars, runVars, invVars>>

vars == <<runnerVars, cacheVars, buildVars, graphVars, termVars, devVars, parseVars, runVars, invVars>>

NoFile == <<"absent">>
NoCall == [name |-> "none", cache |-> <<>>]
NoOp == [op |-> "none", name |-> "none", before |-> 0]
NoEdit == [name |-> "none", file |-> "none", allValid |-> FALSE, run |-> 0]

\* the supervisor is exercised without a workspace or a cache
NoCache ==
    /\ workspace = <<>>
    /\ files = <<>>
    /\ manifest = <<>>
    /\ packageCaches = <<>>
    /\ packageFileIndexes = <<>>
    /\ manifestJson = NoFile
    /\ cacheJson = <<>>
    /\ filesJson = <<>>
    /\ ops = 0
    /\ edits = 0
    /\ lastOp = NoOp

\* no build invocation, no graph function applied, terminateAll not called, no dev
NoBuild ==
    /\ bpc = "idle"
    /\ runs = 0
    /\ skippedPackages = <<>>
    /\ packagesToBuild = <<>>
    /\ processExit = 0
    /\ lastEdit = NoEdit
    /\ prevBuiltAll = 0
    /\ graphPc = "input"
    /\ sortResult = [order |-> <<>>, cycles |-> <<>>]
    /\ batchResult = [ok |-> FALSE, batches |-> <<>>]
    /\ targets = <<>>
    /\ packagesWithDependencies = <<>>
    /\ nodes = [nodes |-> <<>>, dependencies |-> <<>>, dependents |-> <<>>]
    /\ calls = 0
    /\ termPc = "idle"
    /\ termChildren = {}
    /\ timers = {}
    /\ signalled = {}
    /\ killed = {}
    /\ devPc = "idle"
    /\ devExit = -1
    /\ memberDirs = <<>>
    /\ parsePc = "idle"
    /\ runArgs = [scriptName |-> "none", filter |-> {}]
    /\ runPc = "idle"
    /\ runExit = -1
    /\ invCall = NoCall
    /\ invStack = <<>>
    /\ invRemoved = <<>>

NoResult == [success |-> FALSE, exitCode |-> -1, packageName |-> "none"]
NoEnding == [kind |-> "none", code |-> -1]

----------------------------------------------------------------------------
(* ProcessRunner.runCommand *)

\* the ways a child process ends: 'close' with an exit code, 'close' with a null
\* exit code (killed by a signal), or 'error' (spawn failure)
Null == -1
Endings ==
    {[kind |-> "exit", code |-> c] : c \in 0..MaxExitCode}
    \cup {[kind |-> "signal", code |-> Null], [kind |-> "error", code |-> Null]}

\* const code = exitCode || 0
CloseCode(exitCode) == IF exitCode = Null \/ exitCode = 0 THEN 0 ELSE exitCode

\* the ProcessResult of the 'close' handler
CloseResult(cmd, exitCode) ==
    [success |-> (CloseCode(exitCode) = 0), exitCode |-> CloseCode(exitCode), packageName |-> cmd]

\* the ProcessResult of the 'error' handler
ErrorResult(cmd) == [success |-> FALSE, exitCode |-> 1, packageName |-> cmd]

ResultOf(cmd, e) == IF e.kind = "error" THEN ErrorResult(cmd) ELSE CloseResult(cmd, e.code)

\* spawn(command, ...); activeChildren.add(childProcess)
SpawnMutant(cmd) ==
    /\ UNCHANGED activeChildren
    /\ spawned' = Append(spawned, cmd)
Spawn(cmd) ==
    /\ activeChildren' = activeChildren \cup {cmd}
    /\ spawned' = Append(spawned, cmd)

AllCommands == Range(Flatten(batches))

\* await Promise.all(executing) resumes once every remaining promise has resolved
AllSettledMutant == \E k \in DOMAIN executing : settled[executing[k]] # NoResult
NotAwaitedMutant == TRUE
AllSettled == \A k \in DOMAIN executing : settled[executing[k]] # NoResult

Suspended == pc \in {"waitAny", "waitAll", "waitOne"}

\* the driver's continuation is pending: it runs before the next event
ContinuationPending ==
    \/ pc = "waitAny" /\ completedIndex # 0
    \/ pc = "waitOne" /\ settled[executing[1]] # NoResult
    \/ pc = "waitAll" /\ AllSettled

\* childProcess.on('close') / childProcess.on('error'): deregister, resolve(result);
\* a waitForAny that is pending resolves with the index of this promise
ChildEnd(cmd, e) ==
    /\ Suspended /\ ~ContinuationPending
    /\ cmd \in activeChildren
    /\ activeChildren' = activeChildren \ {cmd}
    /\ settled' = [settled EXCEPT ![cmd] = ResultOf(cmd, e)]
    /\ ending' = [ending EXCEPT ![cmd] = e]
    /\ completedIndex' = IF pc = "waitAny" THEN IndexOf(executing, cmd) ELSE completedIndex
    /\ UNCHANGED <<mode, batches, concurrency, pc, bi, ci, executing, results, allResults,
                   returned, spawned>>
    /\ UNCHANGED nonRunnerVars

----------------------------------------------------------------------------
(* ProcessRunner.runParallel *)

CurrentBatch == batches[bi]

\* if (executing.length >= concurrency || i === commands.length - 1)
ReachedLimitMutant(n) == n > concurrency \/ ci = Len(CurrentBatch)
ReachedLimit(n) == n >= concurrency \/ ci = Len(CurrentBatch)

\* loop body up to the await: start the command, executing.push(promise), and
\* either go on to the next command or call waitForAny(executing)
ParStart ==
    /\ pc = "parLoop"
    /\ ci <= Len(CurrentBatch)
    /\ Spawn(CurrentBatch[ci])
    /\ executing' = Append(executing, CurrentBatch[ci])
    /\ IF ReachedLimit(Len(executing'))
       THEN /\ pc' = "waitAny"
            /\ completedIndex' = 0
            /\ ci' = ci
       ELSE /\ pc' = "parLoop"
            /\ ci' = ci + 1
            /\ UNCHANGED completedIndex
    /\ UNCHANGED <<mode, batches, concurrency, bi, results, allResults, returned, settled, ending>>
    /\ UNCHANGED nonRunnerVars

\* after waitForAny: results.push(completed); executing.splice(completedIndex, 1); i++
ParCompleted ==
    /\ pc = "waitAny"
    /\ completedIndex # 0
    /\ results' = Append(results, settled[executing[completedIndex]])
    /\ executing' = Splice(executing, completedIndex)
    /\ completedIndex' = 0
    /\ ci' = ci + 1
    /\ pc' = IF ci + 1 <= Len(CurrentBatch) THEN "parLoop" ELSE "waitAll"
    /\ UNCHANGED <<mode, batches, concurrency, bi, allResults, returned, activeChildren,
                   settled, spawned, ending>>
    /\ UNCHANGED nonRunnerVars

\* results.push(...remainingResults)
ParResultsMutant == results
ParResults == results \o [k \in DOMAIN executing |-> settled[executing[k]]]


\* runParallel called directly: return results
ParReturn ==
    /\ mode = "parallel"
    /\ pc = "waitAll"
    /\ AllSettled
    /\ results' = ParResults
    /\ returned' = ParResults
    /\ executing' = <<>>
    /\ pc' = "done"
    /\ UNCHANGED <<mode, batches, concurrency, bi, ci, allResults, completedIndex,
                   activeChildren, settled, spawned, ending>>
    /\ UNCHANGED nonRunnerVars

----------------------------------------------------------------------------
(* ProcessRunner.runSequential *)

\* const result = await this.runCommand(cmd...)  (the call)
SeqStart ==
    /\ mode = "sequential"
    /\ pc = "seqLoop"
    /\ ci <= Len(CurrentBatch)
    /\ Spawn(CurrentBatch[ci])
    /\ executing' = <<CurrentBatch[ci]>>
    /\ pc' = "waitOne"
    /\ UNCHANGED <<mode, batches, concurrency, bi, ci, results, allResults, returned,
                   completedIndex, settled, ending>>
    /\ UNCHANGED nonRunnerVars

\* if (!result.success) break
StopOnFailureMutant(result) == FALSE
StopOnFailure(result) == ~result.success

\* results.push(result); if (!result.success) break; after the loop: return results
SeqCompleted ==
    /\ mode = "sequential"
    /\ pc = "waitOne"
    /\ settled[executing[1]] # NoResult
    /\ results' = Append(results, settled[executing[1]])
    /\ executing' = <<>>
    /\ IF StopOnFailure(settled[executing[1]]) \/ ci = Len(CurrentBatch)
       THEN /\ pc' = "done"
            /\ returned' = results'
            /\ ci' = ci
       ELSE /\ pc' = "seqLoop"
            /\ ci' = ci + 1
            /\ UNCHANGED returned
    /\ UNCHANGED <<mode, batches, concurrency, bi, allResults, completedIndex,
                   activeChildren, settled, spawned, ending>>
    /\ UNCHANGED nonRunnerVars

\* runSequential([]) returns [] at once
SeqEmpty ==
    /\ mode = "sequential"
    /\ pc = "seqLoop"
    /\ Len(CurrentBatch) = 0
    /\ returned' = results
    /\ pc' = "done"
    /\ UNCHANGED <<mode, batches, concurrency, bi, ci, executing, results, allResults,
                   completedIndex, activeChildren, settled, spawned, ending>>
    /\ UNCHANGED nonRunnerVars

----------------------------------------------------------------------------
(* ProcessRunner.runBatches *)

\* loop head: the next batch is handed to runParallel (whose loop is skipped
\* when the batch is empty), or the loop is over and allResults is returned
BatchStart ==
    /\ mode = "batches"
    /\ pc = "batchLoop"
    /\ IF bi <= Len(batches)
       THEN /\ pc' = IF Len(batches[bi]) = 0 THEN "waitAll" ELSE "parLoop"
            /\ ci' = 1
            /\ executing' = <<>>
            /\ results' = <<>>
            /\ UNCHANGED returned
       ELSE /\ pc' = "done"
            /\ returned' = allResults
            /\ UNCHANGED <<ci, executing, results>>
    /\ UNCHANGED <<mode, batches, concurrency, bi, allResults, completedIndex,
                   activeChildren, settled, spawned, ending>>
    /\ UNCHANGED nonRunnerVars

\* const failures = batchResults.filter(r => !r.success); if (failures.length > 0)
BatchFailedMutant(batchResults) == batchResults # <<>> /\ ~batchResults[Len(batchResults)].success
BatchFailed(batchResults) == \E k \in DOMAIN batchResults : ~batchResults[k].success

\* runParallel returned batchResults: allResults.push(...batchResults); break on a
\* failure, else go on to the next batch
BatchCompleted ==
    /\ mode = "batches"
    /\ pc = "waitAll"
    /\ AllSettled
    /\ results' = ParResults
    /\ executing' = <<>>
    /\ allResults' = allResults \o ParResults
    /\ IF BatchFailed(ParResults)
       THEN /\ pc' = "done"
            /\ returned' = allResults'
            /\ bi' = bi
       ELSE /\ pc' = "batchLoop"
            /\ bi' = bi + 1
            /\ UNCHANGED returned
    /\ UNCHANGED <<mode, batches, concurrency, ci, completedIndex, activeChildren,
                   settled, spawned, ending>>
    /\ UNCHANGED nonRunnerVars


----------------------------------------------------------------------------
(* Workspaces: WorkspaceInfo.packages as loaded by WorkspaceParser *)

PackageInfo(name, dependencies, devDependencies, scripts) ==
    [name |-> name, dependencies |-> dependencies, devDependencies |-> devDependencies,
     scripts |-> scripts]

\* core, lib1 -> core, lib2 -> core, app -> {lib1, lib2}
Diamond ==
    << PackageInfo("app", <<"lib1", "lib2">>, <<>>, {"build"}),
       PackageInfo("core", <<>>, <<>>, {"build"}),
       PackageInfo("lib1", <<"core">>, <<>>, {"build"}),
       PackageInfo("lib2", <<"core">>, <<>>, {"build"}) >>

\* app -> lib (a devDependency) -> base; react is not a workspace package
Chain ==
    << PackageInfo("app", <<"react">>, <<"lib">>, {"build"}),
       PackageInfo("base", <<>>, <<>>, {"build"}),
       PackageInfo("lib", <<"base">>, <<>>, {"build"}) >>

\* a package whose package.json lists the package itself
SelfRef ==
    << PackageInfo("tool", <<>>, <<"tool">>, {"build"}) >>

PackageNames(packages) == {packages[k].name : k \in DOMAIN packages}

\* packageMap.get(name)
PackageOf(packages, name) == packages[CHOOSE k \in DOMAIN packages : packages[k].name = name]

\* [...pkg.dependencies, ...pkg.devDependencies]
AllDeps(pkg) == pkg.dependencies \o pkg.devDependencies

----------------------------------------------------------------------------
(* Files of a package directory *)

\* largest file content (contents are 0..MaxContent)
MaxContent == 1
\* largest number of file edits in a behaviour
MaxEdits == 1
\* largest number of cache operations and file edits in a behaviour of the cache on
\* its own
MaxOps == 4

Contents == 0..MaxContent
Sizes == {10, 20}

\* package.json, a source file, and a file that git ignores
FileNames == {"package.json", "src/index.ts", "dist/out.js"}
GitIgnored == {"dist/out.js"}

InitialFile == [content |-> 0, mtime |-> 0, size |-> 10]

\* SHA-256: createHash('sha256').update(x).digest('hex'), taken to be collision free
Sha256(x) == <<"sha256", x>>

Missing == <<"MISSING">>
NoMeta == [mtime |-> -1, size |-> -1, hash |-> <<"none">>]
NoEntry == [inputHash |-> <<"none">>, dependencyHashes |-> {}]
NoIndex == <<"absent">>
EmptyIndex == [f \in FileNames |-> NoMeta]

----------------------------------------------------------------------------
(* BuildCache.  The operations are functions of the cache as a value `st`:    *)
(* the in-memory maps and the files under .wsu/.                              *)

CacheState ==
    [manifest |-> manifest, packageCaches |-> packageCaches,
     packageFileIndexes |-> packageFileIndexes, manifestJson |-> manifestJson,
     cacheJson |-> cacheJson, filesJson |-> filesJson]

\* loadPackageFileIndex: files.json when it exists, else a new empty index
LoadPackageFileIndex(st, name) ==
    IF st.filesJson[name] # NoIndex THEN st.filesJson[name] ELSE EmptyIndex

\* the test of hashFile: the index entry has the mtime and the size of the stat
Unchanged(stat, cached) ==
    cached # NoMeta /\ cached.mtime = stat.mtime /\ cached.size = stat.size

\* hashFile, the returned hash: the indexed hash when the file is unchanged, else
\* the hash of the content read
HashFile(stat, cached) ==
    IF Unchanged(stat, cached) THEN cached.hash ELSE Sha256(stat.content)

\* hashFile, the index entry it leaves
MetaAfterHashFile(stat, cached) ==
    IF Unchanged(stat, cached) THEN cached
    ELSE [mtime |-> stat.mtime, size |-> stat.size, hash |-> Sha256(stat.content)]

\* getSourceFiles: every file of the package directory that git does not ignore
SourceFiles == FileNames \ GitIgnored

\* the file index after calculatePackageHash: package.json and every source file hashed
IndexAfterHash(st, name) ==
    [f \in FileNames |->
        IF f \in SourceFiles \cup {"package.json"}
        THEN MetaAfterHashFile(files[name][f], LoadPackageFileIndex(st, name)[f])
        ELSE LoadPackageFileIndex(st, name)[f]]

\* this.packageCaches.get(depName)?.inputHash, MISSING when there is no entry
DepHash(st, depName) ==
    IF depName \in DOMAIN st.packageCaches /\ st.packageCaches[depName] # NoEntry
    THEN st.packageCaches[depName].inputHash
    ELSE Missing

\* depHashes: `${depName}:${depEntry.inputHash}` or `${depName}:MISSING`
DepHashes(st, pkg) == {<<AllDeps(pkg)[k], DepHash(st, AllDeps(pkg)[k])>> : k \in DOMAIN AllDeps(pkg)}

\* calculatePackageHash: the hash of package.json, the sorted relPath:hash list and
\* the sorted dependency list, joined and hashed
CalculatePackageHash(st, pkg) ==
    Sha256([packageJson |-> HashFile(files[pkg.name]["package.json"],
                                     LoadPackageFileIndex(st, pkg.name)["package.json"]),
            sources |-> {<<f, HashFile(files[pkg.name][f], LoadPackageFileIndex(st, pkg.name)[f])>> :
                            f \in SourceFiles},
            deps |-> DepHashes(st, pkg)])

\* isValid
IsValid(st, pkg) ==
    /\ st.packageCaches[pkg.name] # NoEntry
    /\ st.packageCaches[pkg.name].inputHash = CalculatePackageHash(st, pkg)

\* update(pkg): the CacheEntry (lastBuild, buildDuration and builtBy are metadata
\* that no decision reads), savePackageCache (cache.json, the map, the manifest
\* when the name is new) and savePackageFileIndex (files.json)
Update(st, pkg) ==
    LET entry == [inputHash |-> CalculatePackageHash(st, pkg),
                  dependencyHashes |-> DepHashes(st, pkg)]
        index == IndexAfterHash(st, pkg.name)
        newManifest == IF pkg.name \in Range(st.manifest) THEN st.manifest
                       ELSE Append(st.manifest, pkg.name)
    IN  [manifest |-> newManifest,
         packageCaches |-> [st.packageCaches EXCEPT ![pkg.name] = entry],
         packageFileIndexes |-> [st.packageFileIndexes EXCEPT ![pkg.name] = index],
         manifestJson |-> IF pkg.name \in Range(st.manifest) THEN st.manifestJson ELSE newManifest,
         cacheJson |-> [st.cacheJson EXCEPT ![pkg.name] = entry],
         filesJson |-> [st.filesJson EXCEPT ![pkg.name] = index]]

\* invalidatePackage(packageName)
InvalidatePackageMutant(st, name) ==
    LET newManifest == IF name \in Range(st.manifest)
                       THEN SubSeq(st.manifest, 1, IndexOf(st.manifest, name) - 1)
                       ELSE st.manifest
    IN  [st EXCEPT !.packageCaches = [st.packageCaches EXCEPT ![name] = NoEntry],
                   !.cacheJson = [st.cacheJson EXCEPT ![name] = NoEntry],
                   !.manifest = newManifest,
                   !.manifestJson = IF name \in Range(st.manifest) THEN newManifest ELSE st.manifestJson]
InvalidatePackage(st, name) ==
    LET newManifest == IF name \in Range(st.manifest)
                       THEN Splice(st.manifest, IndexOf(st.manifest, name))
                       ELSE st.manifest
    IN  [st EXCEPT !.packageCaches = [st.packageCaches EXCEPT ![name] = NoEntry],
                   !.cacheJson = [st.cacheJson EXCEPT ![name] = NoEntry],
                   !.manifest = newManifest,
                   !.manifestJson = IF name \in Range(st.manifest) THEN newManifest ELSE st.manifestJson]

\* packages.filter(p => p.dependencies.includes(name) || p.devDependencies.includes(name))
DependentsOf(packages, name) ==
    LET keep == {k \in DOMAIN packages : name \in Range(AllDeps(packages[k]))}
    IN  [k \in 1..Cardinality(keep) |->
            packages[CHOOSE i \in keep : Cardinality({j \in keep : j < i}) = k - 1].name]

\* this.packageCaches.has(name)
Has(st, name) == st.packageCaches[name] # NoEntry

\* invalidateDependents(packageName, packages): the loop over the dependents from
\* the k-th on, each cached dependent invalidated and then its own dependents
RECURSIVE InvalidateDependentsLoop(_, _, _, _)
InvalidateDependentsLoop(st, dependents, k, packages) ==
    IF k > Len(dependents) THEN st
    ELSE IF Has(st, dependents[k])
         THEN InvalidateDependentsLoop(
                  InvalidateDependentsLoop(InvalidatePackage(st, dependents[k]),
                                           DependentsOf(packages, dependents[k]), 1, packages),
                  dependents, k + 1, packages)
         ELSE InvalidateDependentsLoop(st, dependents, k + 1, packages)

\* invalidateDependents that invalidates the package itself as well
InvalidateDependentsMutant(st, name, packages) ==
    InvalidatePackage(InvalidateDependentsLoop(st, DependentsOf(packages, name), 1, packages), name)
InvalidateDependents(st, name, packages) ==
    InvalidateDependentsLoop(st, DependentsOf(packages, name), 1, packages)

\* clear()
ClearMutant(st) ==
    [manifest |-> <<>>,
     packageCaches |-> st.packageCaches,
     packageFileIndexes |-> [n \in DOMAIN st.packageFileIndexes |-> NoIndex],
     manifestJson |-> <<>>,
     cacheJson |-> [n \in DOMAIN st.cacheJson |-> NoEntry],
     filesJson |-> [n \in DOMAIN st.filesJson |-> NoIndex]]
Clear(st) ==
    [manifest |-> <<>>,
     packageCaches |-> [n \in DOMAIN st.packageCaches |-> NoEntry],
     packageFileIndexes |-> [n \in DOMAIN st.packageFileIndexes |-> NoIndex],
     manifestJson |-> <<>>,
     cacheJson |-> [n \in DOMAIN st.cacheJson |-> NoEntry],
     filesJson |-> [n \in DOMAIN st.filesJson |-> NoIndex]]

\* getCachedPackages(): [...this.manifest.packages]
GetCachedPackages(st) == st.manifest

\* getStats().totalPackages: Array.from(this.packageCaches.values()).length
TotalPackages(st) == Cardinality({n \in DOMAIN st.packageCaches : Has(st, n)})

\* the cache is st at the start
SetInitial(st) ==
    /\ manifest = st.manifest
    /\ packageCaches = st.packageCaches
    /\ packageFileIndexes = st.packageFileIndexes
    /\ manifestJson = st.manifestJson
    /\ cacheJson = st.cacheJson
    /\ filesJson = st.filesJson

\* the cache becomes st
SetCache(st) ==
    /\ manifest' = st.manifest
    /\ packageCaches' = st.packageCaches
    /\ packageFileIndexes' = st.packageFileIndexes
    /\ manifestJson' = st.manifestJson
    /\ cacheJson' = st.cacheJson
    /\ filesJson' = st.filesJson

----------------------------------------------------------------------------
(* DependencyGraph: nodes in insertion order, each with its dependencies and    *)
(* dependents in insertion order                                               *)

\* a list without its repeated elements (a Set keeps the first insertion)
RECURSIVE Dedupe(_)
Dedupe(s) ==
    IF s = <<>> THEN <<>>
    ELSE LET front == Dedupe(SubSeq(s, 1, Len(s) - 1))
         IN  IF s[Len(s)] \in Range(front) THEN front ELSE Append(front, s[Len(s)])

\* buildDependencyGraph(packages): every package a node, an edge for every
\* dependency or devDependency that names one of the packages
BuildDependencyGraph(packages) ==
    LET names == [k \in DOMAIN packages |-> packages[k].name]
        depsOf(k) == Dedupe(FilterSeq(AllDeps(packages[k]), Range(names)))
    IN  [nodes |-> names,
         dependencies |-> [n \in Range(names) |-> depsOf(IndexOf(names, n))],
         dependents |-> [n \in Range(names) |->
                            FilterSeq(names, {names[k] : k \in {j \in DOMAIN names : n \in Range(depsOf(j))}})]]

\* new DependencyGraph()
EmptyGraph == [nodes |-> <<>>, dependencies |-> <<>>, dependents |-> <<>>]

\* set.add(x) on a Set kept in insertion order
SetAdd(set, x) == IF x \in Range(set) THEN set ELSE Append(set, x)

\* addPackage(packageName)
AddPackage(graph, packageName) ==
    IF packageName \in Range(graph.nodes) THEN graph
    ELSE [nodes |-> Append(graph.nodes, packageName),
          dependencies |-> graph.dependencies @@ (packageName :> <<>>),
          dependents |-> graph.dependents @@ (packageName :> <<>>)]

\* addDependency(packageName, dependencyName) that leaves out the dependents
AddDependencyMutant(graph, packageName, dependencyName) ==
    LET added == AddPackage(AddPackage(graph, packageName), dependencyName)
    IN  [added EXCEPT !.dependencies[packageName] = SetAdd(@, dependencyName)]

\* addDependency(packageName, dependencyName)
AddDependency(graph, packageName, dependencyName) ==
    LET added == AddPackage(AddPackage(graph, packageName), dependencyName)
        withDependency == [added EXCEPT !.dependencies[packageName] = SetAdd(@, dependencyName)]
    IN  [withDependency EXCEPT !.dependents[dependencyName] = SetAdd(@, packageName)]

\* filterGraph, the first loop from the k-th name on: addPackage for the names
\* that are nodes
RECURSIVE FilterAddPackages(_, _, _, _)
FilterAddPackages(graph, filteredGraph, packageNames, k) ==
    IF k > Len(packageNames) THEN filteredGraph
    ELSE FilterAddPackages(graph,
                           IF packageNames[k] \in Range(graph.nodes)
                           THEN AddPackage(filteredGraph, packageNames[k])
                           ELSE filteredGraph,
                           packageNames, k + 1)

\* filterGraph, the inner loop over the dependencies of a package from the j-th on
RECURSIVE FilterAddDependencies(_, _, _, _, _)
FilterAddDependencies(filteredGraph, packageName, dependencies, packageSet, j) ==
    IF j > Len(dependencies) THEN filteredGraph
    ELSE FilterAddDependencies(IF dependencies[j] \in packageSet
                               THEN AddDependency(filteredGraph, packageName, dependencies[j])
                               ELSE filteredGraph,
                               packageName, dependencies, packageSet, j + 1)

\* filterGraph, the second loop from the k-th name on
RECURSIVE FilterAddEdges(_, _, _, _)
FilterAddEdges(graph, filteredGraph, packageNames, k) ==
    IF k > Len(packageNames) THEN filteredGraph
    ELSE FilterAddEdges(graph,
                        IF packageNames[k] \in Range(graph.nodes)
                        THEN FilterAddDependencies(filteredGraph, packageNames[k],
                                                   graph.dependencies[packageNames[k]],
                                                   Range(packageNames), 1)
                        ELSE filteredGraph,
                        packageNames, k + 1)

\* filterGraph(packageNames), call by call
FilterGraphCalls(graph, packageNames) ==
    FilterAddEdges(graph, FilterAddPackages(graph, EmptyGraph, packageNames, 1), packageNames, 1)

\* filterGraph(packageNames) of a graph built by buildDependencyGraph, as the
\* graph it returns
FilterGraph(graph, packageNames) ==
    LET kept == FilterSeq(packageNames, Range(graph.nodes))
    IN  [nodes |-> kept,
         dependencies |-> [n \in Range(kept) |-> FilterSeq(graph.dependencies[n], Range(packageNames))],
         dependents |-> [n \in Range(kept) |->
                            FilterSeq(kept, {m \in Range(kept) : n \in Range(graph.dependencies[m])})]]

\* topologicalSort, the loop of Kahn's algorithm: the queue, the in-degrees, the result
RECURSIVE Kahn(_, _, _, _)
Kahn(graph, queue, inDegree, result) ==
    IF queue = <<>> THEN result
    ELSE LET currentPackage == Head(queue)
             dependents == graph.dependents[currentPackage]
             newInDegree == [n \in DOMAIN inDegree |->
                                IF n \in Range(dependents) THEN inDegree[n] - 1 ELSE inDegree[n]]
         IN  Kahn(graph,
                  Tail(queue) \o FilterSeq(dependents, {n \in DOMAIN inDegree : newInDegree[n] = 0}),
                  newInDegree,
                  Append(result, currentPackage))

\* detectCycles, the depth-first search: dfs(node, path) on the state
\* [visited, recStack, cycles]; DfsDeps is its loop over the dependencies from the k-th on
RECURSIVE Dfs(_, _, _, _, _)
RECURSIVE DfsDeps(_, _, _, _, _, _)
Dfs(graph, remainingNodes, node, path, st) ==
    IF node \in st.recStack
    THEN IF node \in Range(path)
         THEN [st EXCEPT !.cycles = Append(@, Append(SubSeq(path, IndexOf(path, node), Len(path)), node))]
         ELSE st
    ELSE IF node \in st.visited THEN st
    ELSE LET entered == [st EXCEPT !.visited = @ \cup {node}, !.recStack = @ \cup {node}]
             after == DfsDeps(graph, remainingNodes, node, path, 1, entered)
         IN  [after EXCEPT !.recStack = @ \ {node}]

DfsDeps(graph, remainingNodes, node, path, k, st) ==
    IF k > Len(graph.dependencies[node]) THEN st
    ELSE DfsDeps(graph, remainingNodes, node, path, k + 1,
                 IF graph.dependencies[node][k] \in Range(remainingNodes)
                 THEN Dfs(graph, remainingNodes, graph.dependencies[node][k], Append(path, node), st)
                 ELSE st)

\* detectCycles(remainingNodes): the loop over the remaining nodes from the k-th on
RECURSIVE DetectCyclesFrom(_, _, _, _)
DetectCyclesFrom(graph, remainingNodes, k, st) ==
    IF k > Len(remainingNodes) THEN st.cycles
    ELSE DetectCyclesFrom(graph, remainingNodes, k + 1,
                          IF remainingNodes[k] \notin st.visited
                          THEN Dfs(graph, remainingNodes, remainingNodes[k], <<>>, st)
                          ELSE st)

DetectCycles(graph, remainingNodes) ==
    DetectCyclesFrom(graph, remainingNodes, 1, [visited |-> {}, recStack |-> {}, cycles |-> <<>>])

\* topologicalSort() with the in-degree taken from the dependents of a node
TopologicalSortMutant(graph) ==
    LET order == Kahn(graph,
                      FilterSeq(graph.nodes, {n \in Range(graph.nodes) : Len(graph.dependents[n]) = 0}),
                      [n \in Range(graph.nodes) |-> Len(graph.dependents[n])],
                      <<>>)
    IN  [order |-> order,
         cycles |-> IF Len(order) # Len(graph.nodes)
                    THEN DetectCycles(graph, FilterSeq(graph.nodes, Range(graph.nodes) \ Range(order)))
                    ELSE <<>>]

\* topologicalSort(): { order, cycles }
TopologicalSort(graph) ==
    LET order == Kahn(graph,
                      FilterSeq(graph.nodes, {n \in Range(graph.nodes) : Len(graph.dependencies[n]) = 0}),
                      [n \in Range(graph.nodes) |-> Len(graph.dependencies[n])],
                      <<>>)
    IN  [order |-> order,
         cycles |-> IF Len(order) # Len(graph.nodes)
                    THEN DetectCycles(graph, FilterSeq(graph.nodes, Range(graph.nodes) \ Range(order)))
                    ELSE <<>>]

\* the while loop with dependencies.some in place of dependencies.every
RECURSIVE BatchLoopMutant(_, _, _, _)
BatchLoopMutant(graph, order, processed, acc) ==
    IF Cardinality(processed) >= Len(order) THEN [ok |-> TRUE, batches |-> acc]
    ELSE LET currentBatch ==
                 FilterSeq(order, {n \in Range(order) :
                                     /\ n \notin processed
                                     /\ \/ graph.dependencies[n] = <<>>
                                        \/ Range(graph.dependencies[n]) \cap processed # {}})
         IN  IF currentBatch = <<>> THEN [ok |-> FALSE, batches |-> acc]
             ELSE BatchLoopMutant(graph, order, processed \cup Range(currentBatch), Append(acc, currentBatch))

\* getBuildBatches, the while loop: a batch of every unprocessed package of the
\* order whose dependencies are all processed; an empty batch throws
RECURSIVE BatchLoop(_, _, _, _)
BatchLoop(graph, order, processed, acc) ==
    IF Cardinality(processed) >= Len(order) THEN [ok |-> TRUE, batches |-> acc]
    ELSE LET currentBatch ==
                 FilterSeq(order, {n \in Range(order) :
                                     n \notin processed /\ Range(graph.dependencies[n]) \subseteq processed})
         IN  IF currentBatch = <<>> THEN [ok |-> FALSE, batches |-> acc]
             ELSE BatchLoop(graph, order, processed \cup Range(currentBatch), Append(acc, currentBatch))

\* getBuildBatches(): throws (ok = FALSE) when topologicalSort reports cycles
GetBuildBatches(graph) ==
    IF TopologicalSort(graph).cycles # <<>> THEN [ok |-> FALSE, batches |-> <<>>]
    ELSE BatchLoop(graph, TopologicalSort(graph).order, {}, <<>>)

----------------------------------------------------------------------------
(* The files change: an edit, a build output, a checkout *)

\* the content of a file changes; its mtime stays or advances, its size is any
EditFile(name, f, content, mtime, size) ==
    /\ bpc # "building"
    /\ edits < MaxEdits
    /\ ops < MaxOps
    /\ edits' = edits + 1
    /\ ops' = ops + 1
    /\ content # files[name][f].content
    /\ mtime \in {files[name][f].mtime, files[name][f].mtime + 1}
    /\ files' = [files EXCEPT ![name][f] = [content |-> content, mtime |-> mtime, size |-> size]]
    /\ lastEdit' = [name |-> name, file |-> f,
                    allValid |-> \A k \in DOMAIN workspace : IsValid(CacheState, workspace[k]),
                    run |-> runs]
    /\ prevBuiltAll' = 0
    /\ UNCHANGED <<workspace, manifest, packageCaches, packageFileIndexes, manifestJson,
                   cacheJson, filesJson, lastOp>>
    /\ UNCHANGED <<bpc, runs, skippedPackages, packagesToBuild, processExit>>
    /\ UNCHANGED <<runnerVars, graphVars, termVars, devVars, parseVars, runVars, invVars>>

----------------------------------------------------------------------------
(* The cache on its own: a BuildCache of a workspace with an empty .wsu/,      *)
(* initialized, and any sequence of its operations                            *)

\* new BuildCache(root) and initialize() where no .wsu/ exists
EmptyCache(packages) ==
    /\ workspace = packages
    /\ files = [n \in PackageNames(packages) |-> [f \in FileNames |-> InitialFile]]
    /\ manifest = <<>>
    /\ packageCaches = [n \in PackageNames(packages) |-> NoEntry]
    /\ packageFileIndexes = [n \in PackageNames(packages) |-> NoIndex]
    /\ manifestJson = NoFile
    /\ cacheJson = [n \in PackageNames(packages) |-> NoEntry]
    /\ filesJson = [n \in PackageNames(packages) |-> NoIndex]
    /\ ops = 0
    /\ edits = 0
    /\ lastOp = NoOp

\* no driver is running
NoRunner ==
    /\ mode = "none"
    /\ batches = <<>>
    /\ concurrency = 0
    /\ pc = "none"
    /\ bi = 1
    /\ ci = 1
    /\ executing = <<>>
    /\ results = <<>>
    /\ allResults = <<>>
    /\ returned = <<>>
    /\ completedIndex = 0
    /\ activeChildren = {}
    /\ settled = <<>>
    /\ spawned = <<>>
    /\ ending = <<>>

CacheOp(op, name, st) ==
    /\ ops < MaxOps
    /\ ops' = ops + 1
    /\ lastOp' = [op |-> op, name |-> name, before |-> TotalPackages(CacheState)]
    /\ SetCache(st)
    /\ UNCHANGED <<workspace, files, edits>>
    /\ UNCHANGED buildVars
    /\ UNCHANGED <<runnerVars, graphVars, termVars, devVars, parseVars, runVars, invVars>>

CacheUpdate(k) == CacheOp("update", workspace[k].name, Update(CacheState, workspace[k]))

CacheInvalidatePackage(name) ==
    CacheOp("invalidatePackage", name, InvalidatePackage(CacheState, name))

CacheInvalidateDependents(name) ==
    CacheOp("invalidateDependents", name, InvalidateDependents(CacheState, name, workspace))

CacheClear == CacheOp("clear", "none", Clear(CacheState))

InitCache ==
    /\ \E packages \in {Diamond, Chain, SelfRef} : EmptyCache(packages)
    /\ NoRunner
    /\ NoBuild

NextCache ==
    \/ \E k \in DOMAIN workspace : CacheUpdate(k)
    \/ \E name \in PackageNames(workspace) : CacheInvalidatePackage(name)
    \/ \E name \in PackageNames(workspace) : CacheInvalidateDependents(name)
    \/ CacheClear
    \/ \E name \in PackageNames(workspace), f \in FileNames, content \in Contents,
          mtime \in 0..MaxEdits, size \in Sizes : EditFile(name, f, content, mtime, size)

SpecCache == InitCache /\ [][NextCache]_vars

\* the four operations alone, on files that stay as they are
NextOps ==
    \/ \E k \in DOMAIN workspace : CacheUpdate(k)
    \/ \E name \in PackageNames(workspace) : CacheInvalidatePackage(name)
    \/ \E name \in PackageNames(workspace) : CacheInvalidateDependents(name)
    \/ CacheClear

SpecOps == InitCache /\ [][NextOps]_vars

----------------------------------------------------------------------------
(* buildCommand *)

\* largest number of build invocations in a behaviour
MaxRuns == 4

\* initialize() of a new BuildCache: loadManifest reads manifest.json and loads
\* cache.json and files.json of every package it names
Initialize(st) ==
    LET loaded == IF st.manifestJson = NoFile THEN <<>> ELSE st.manifestJson
    IN  [st EXCEPT !.manifest = loaded,
                   !.packageCaches = [n \in DOMAIN st.cacheJson |->
                                         IF n \in Range(loaded) THEN st.cacheJson[n] ELSE NoEntry],
                   !.packageFileIndexes = [n \in DOMAIN st.filesJson |->
                                              IF n \in Range(loaded)
                                              THEN LoadPackageFileIndex(st, n) ELSE NoIndex]]

\* validatePackagesHaveScript(packages, "build").valid
WithBuildScript(packages) ==
    LET keep == {k \in DOMAIN packages : "build" \in packages[k].scripts}
    IN  [k \in 1..Cardinality(keep) |->
            packages[CHOOSE i \in keep : Cardinality({j \in keep : j < i}) = k - 1]]

\* the loop following pkg.dependencies only
RECURSIVE CollectMutant(_, _, _)
CollectMutant(queue, collected, all) ==
    IF queue = <<>> THEN collected
    ELSE LET pkg == Head(queue)
         IN  IF pkg.name \in PackageNames(collected) THEN CollectMutant(Tail(queue), collected, all)
             ELSE LET now == Append(collected, pkg)
                      deps == FilterSeq(pkg.dependencies, PackageNames(all) \ PackageNames(now))
                  IN  CollectMutant(Tail(queue) \o [k \in DOMAIN deps |-> PackageOf(all, deps[k])], now, all)

\* collectPackagesWithDependencies: the queue and the packages collected so far
RECURSIVE Collect(_, _, _)
Collect(queue, collected, all) ==
    IF queue = <<>> THEN collected
    ELSE LET pkg == Head(queue)
         IN  IF pkg.name \in PackageNames(collected) THEN Collect(Tail(queue), collected, all)
             ELSE LET now == Append(collected, pkg)
                      deps == FilterSeq(AllDeps(pkg), PackageNames(all) \ PackageNames(now))
                  IN  Collect(Tail(queue) \o [k \in DOMAIN deps |-> PackageOf(all, deps[k])], now, all)

CollectPackagesWithDependencies(packages, all) == Collect(packages, <<>>, all)

\* the packages of the build set that have a build script
PackagesWithBuild == WithBuildScript(CollectPackagesWithDependencies(WithBuildScript(workspace), workspace))

\* the cache check loop: isValid of each package in turn; calculatePackageHash
\* leaves the file index it hashed with in packageFileIndexes
RECURSIVE CheckAll(_, _, _)
CheckAll(st, packages, k) ==
    IF k > Len(packages) THEN st
    ELSE CheckAll(IF Has(st, packages[k].name)
                  THEN [st EXCEPT !.packageFileIndexes[packages[k].name] = IndexAfterHash(st, packages[k].name)]
                  ELSE st,
                  packages, k + 1)

Names(packages) == [k \in DOMAIN packages |-> packages[k].name]

\* buildCommand (no --filter, skipUnchanged on) up to the call of runBatches: the
\* cache is initialized, the build
\* set is split into skippedPackages and packagesToBuild, and either everything is
\* up to date (return), or the batches cannot be derived (exit 1), or runBatches is
\* called with the batches
BuildPlan ==
    /\ bpc \in {"idle", "exited"}
    /\ runs < MaxRuns
    /\ runs' = runs + 1
    /\ LET st == Initialize(CacheState)
           valid == {k \in DOMAIN PackagesWithBuild : IsValid(st, PackagesWithBuild[k])}
           skipped == FilterSeq(Names(PackagesWithBuild), {PackagesWithBuild[k].name : k \in valid})
           toBuild == FilterSeq(Names(PackagesWithBuild),
                                {PackagesWithBuild[k].name : k \in DOMAIN PackagesWithBuild \ valid})
           toBuildInfo == [k \in DOMAIN toBuild |-> PackageOf(workspace, toBuild[k])]
           plan == GetBuildBatches(FilterGraph(BuildDependencyGraph(toBuildInfo), toBuild))
       IN  /\ SetCache(CheckAll(st, PackagesWithBuild, 1))
           /\ skippedPackages' = skipped
           /\ packagesToBuild' = toBuild
           /\ IF toBuild = <<>> \/ ~plan.ok
              THEN /\ bpc' = "exited"
                   /\ processExit' = IF toBuild = <<>> THEN 0 ELSE 1
                   /\ mode' = "none"
                   /\ batches' = <<>>
                   /\ pc' = "none"
                   /\ settled' = <<>>
                   /\ ending' = <<>>
              ELSE /\ bpc' = "building"
                   /\ UNCHANGED processExit
                   /\ mode' = "batches"
                   /\ batches' = plan.batches
                   /\ pc' = "batchLoop"
                   /\ settled' = [c \in Range(toBuild) |-> NoResult]
                   /\ ending' = [c \in Range(toBuild) |-> NoEnding]
    /\ bi' = 1
    /\ ci' = 1
    /\ executing' = <<>>
    /\ results' = <<>>
    /\ allResults' = <<>>
    /\ returned' = <<>>
    /\ completedIndex' = 0
    /\ activeChildren' = {}
    /\ spawned' = <<>>
    /\ UNCHANGED <<concurrency, workspace, files, ops, edits, lastOp, lastEdit, prevBuiltAll>>
    /\ UNCHANGED <<graphVars, termVars, devVars, parseVars, runVars, invVars>>

\* for (const result of successfulBuilds) await cache.update(pkg, ...)
RECURSIVE UpdateAll(_, _, _)
UpdateAll(st, names, k) ==
    IF k > Len(names) THEN st
    ELSE UpdateAll(Update(st, PackageOf(workspace, names[k])), names, k + 1)

\* for (const result of successfulBuilds) cache.invalidateDependents(result.packageName, workspace.packages)
RECURSIVE InvalidateAll(_, _, _)
InvalidateAll(st, names, k) ==
    IF k > Len(names) THEN st
    ELSE InvalidateAll(InvalidateDependents(st, names[k], workspace), names, k + 1)

\* allResults.filter(r => r.success), by name
Successful(rs) ==
    LET keep == {k \in DOMAIN rs : rs[k].success}
    IN  [k \in 1..Cardinality(keep) |->
            rs[CHOOSE i \in keep : Cardinality({j \in keep : j < i}) = k - 1].packageName]

\* const allResults = await ProcessRunner.runBatches(commandBatches, concurrency):
\* buildCommand resumes when the driver has returned
RunBatchesReturned == pc = "done"

\* buildCommand after runBatches returned: the cache is updated for every
\* successful build, then the dependents of every successful build are
\* invalidated; exit 1 when a build failed
BuildFinish ==
    /\ bpc = "building"
    /\ RunBatchesReturned
    /\ SetCache(InvalidateAll(UpdateAll(CacheState, Successful(returned), 1), Successful(returned), 1))
    /\ processExit' = IF \E k \in DOMAIN returned : ~returned[k].success THEN 1 ELSE 0
    /\ bpc' = "exited"
    /\ prevBuiltAll' = IF Range(Successful(returned)) = PackageNames(workspace) THEN runs ELSE 0
    /\ lastEdit' = NoEdit
    /\ UNCHANGED <<workspace, files, ops, edits, lastOp, runs, skippedPackages, packagesToBuild>>
    \* the process ends: of the runner only the results it returned are kept
    /\ pc' = "none"
    /\ executing' = <<>>
    /\ results' = <<>>
    /\ allResults' = <<>>
    /\ completedIndex' = 0
    /\ activeChildren' = {}
    /\ settled' = <<>>
    /\ spawned' = <<>>
    /\ ending' = <<>>
    /\ mode' = "none"
    /\ batches' = <<>>
    /\ bi' = 1
    /\ ci' = 1
    /\ UNCHANGED <<concurrency, returned>>
    /\ UNCHANGED <<graphVars, termVars, devVars, parseVars, runVars, invVars>>

\* a workspace with an empty .wsu/, and `wsu build --concurrency n` run again and
\* again while files are edited between the invocations
InitBuild ==
    /\ \E packages \in {Diamond, Chain} : EmptyCache(packages)
    /\ \E n \in {1, MaxConcurrency} :
          /\ mode = "none"
          /\ batches = <<>>
          /\ concurrency = n
          /\ pc = "none"
          /\ bi = 1
          /\ ci = 1
          /\ executing = <<>>
          /\ results = <<>>
          /\ allResults = <<>>
          /\ returned = <<>>
          /\ completedIndex = 0
          /\ activeChildren = {}
          /\ settled = <<>>
          /\ spawned = <<>>
          /\ ending = <<>>
    /\ NoBuild

\* the size of a file saved by an editor: it differs from the size it had
SavedSize == CHOOSE s \in Sizes : s # InitialFile.size

NextBuild ==
    \/ BuildPlan
    \/ BuildFinish
    \/ \E name \in PackageNames(workspace), f \in FileNames, content \in Contents :
          EditFile(name, f, content, files[name][f].mtime + 1, SavedSize)
    \/ \E cmd \in AllCommands, e \in Endings : ChildEnd(cmd, e)
    \/ ParStart
    \/ ParCompleted
    \/ BatchStart
    \/ BatchCompleted

SpecBuild == InitBuild /\ [][NextBuild]_vars

\* app -> lib -> base, where lib has no build script
Unbuilt ==
    << PackageInfo("app", <<"lib">>, <<>>, {"build"}),
       PackageInfo("base", <<>>, <<>>, {"build"}),
       PackageInfo("lib", <<"base">>, <<>>, {"test"}) >>

\* `wsu build` run again and again on that workspace, from an empty .wsu/
InitUnbuilt ==
    /\ EmptyCache(Unbuilt)
    /\ mode = "none"
    /\ batches = <<>>
    /\ concurrency = MaxConcurrency
    /\ pc = "none"
    /\ bi = 1
    /\ ci = 1
    /\ executing = <<>>
    /\ results = <<>>
    /\ allResults = <<>>
    /\ returned = <<>>
    /\ completedIndex = 0
    /\ activeChildren = {}
    /\ settled = <<>>
    /\ spawned = <<>>
    /\ ending = <<>>
    /\ NoBuild

SpecUnbuilt == InitUnbuilt /\ [][NextBuild]_vars

----------------------------------------------------------------------------
(* buildCommand on a workspace whose package.json files gain dependencies *)

\* base, and lib that depends on base
Pair ==
    << PackageInfo("base", <<>>, <<>>, {"build"}),
       PackageInfo("lib", <<"base">>, <<>>, {"build"}) >>

\* between two invocations the package.json of package k gains the workspace
\* dependency dep: parseWorkspace loads the new list, hashFile sees a new file
EditDependencies(k, dep) ==
    /\ bpc # "building"
    /\ edits < MaxEdits
    /\ ops < MaxOps
    /\ edits' = edits + 1
    /\ ops' = ops + 1
    /\ dep \notin Range(AllDeps(workspace[k]))
    /\ workspace' = [workspace EXCEPT ![k].dependencies = Append(@, dep)]
    /\ \E content \in Contents :
          /\ content # files[workspace[k].name]["package.json"].content
          /\ files' = [files EXCEPT ![workspace[k].name]["package.json"] =
                          [content |-> content, mtime |-> @.mtime + 1, size |-> SavedSize]]
    /\ lastEdit' = [name |-> workspace[k].name, file |-> "package.json",
                    allValid |-> \A j \in DOMAIN workspace : IsValid(CacheState, workspace[j]),
                    run |-> runs]
    /\ prevBuiltAll' = 0
    /\ UNCHANGED <<manifest, packageCaches, packageFileIndexes, manifestJson,
                   cacheJson, filesJson, lastOp>>
    /\ UNCHANGED <<bpc, runs, skippedPackages, packagesToBuild, processExit>>
    /\ UNCHANGED <<runnerVars, graphVars, termVars, devVars, parseVars, runVars, invVars>>

InitCycle ==
    /\ \E packages \in {Pair, Chain} : EmptyCache(packages)
    /\ \E n \in {1, MaxConcurrency} :
          /\ mode = "none"
          /\ batches = <<>>
          /\ concurrency = n
          /\ pc = "none"
          /\ bi = 1
          /\ ci = 1
          /\ executing = <<>>
          /\ results = <<>>
          /\ allResults = <<>>
          /\ returned = <<>>
          /\ completedIndex = 0
          /\ activeChildren = {}
          /\ settled = <<>>
          /\ spawned = <<>>
          /\ ending = <<>>
    /\ NoBuild

NextCycle ==
    \/ BuildPlan
    \/ BuildFinish
    \/ \E k \in DOMAIN workspace, dep \in PackageNames(workspace) : EditDependencies(k, dep)
    \/ \E cmd \in AllCommands, e \in Endings : ChildEnd(cmd, e)
    \/ ParStart
    \/ ParCompleted
    \/ BatchStart
    \/ BatchCompleted

SpecCycle == InitCycle /\ [][NextCycle]_vars

----------------------------------------------------------------------------
(* The graph functions on their own: topologicalSort, getBuildBatches and      *)
(* collectPackagesWithDependencies applied to the packages of a workspace      *)

\* largest number of packages and of dependency declarations in a workspace
MaxNodes == 3
MaxEdges == 4

NodeNames == SubSeq(<<"a", "b", "c", "d", "e">>, 1, MaxNodes)

RECURSIVE Reverse(_)
Reverse(s) == IF s = <<>> THEN <<>> ELSE Append(Reverse(Tail(s)), Head(s))

\* the packages with the dependency declarations edges; they are listed as
\* dependencies in the order of the names, or as devDependencies in the opposite
\* order next to a dependency that is no workspace package
GraphWorkspace(edges, dev) ==
    [k \in DOMAIN NodeNames |->
        LET deps == {m \in Range(NodeNames) : <<NodeNames[k], m>> \in edges}
        IN  IF dev
            THEN PackageInfo(NodeNames[k], <<"react">>, FilterSeq(Reverse(NodeNames), deps), {"build"})
            ELSE PackageInfo(NodeNames[k], FilterSeq(NodeNames, deps), <<>>, {"build"})]

\* a sub-list of the packages: what filterPackages or validatePackagesHaveScript leave
SubList(packages, keep) ==
    [k \in 1..Cardinality(keep) |->
        packages[CHOOSE i \in keep : Cardinality({j \in keep : j < i}) = k - 1]]

ApplyTopologicalSort ==
    /\ graphPc = "input"
    /\ graphPc' = "sorted"
    /\ sortResult' = TopologicalSort(BuildDependencyGraph(workspace))
    /\ UNCHANGED <<batchResult, targets, packagesWithDependencies, nodes, calls>>
    /\ UNCHANGED <<runnerVars, cacheVars, termVars, devVars, parseVars, runVars, invVars>>
    /\ UNCHANGED <<bpc, runs, skippedPackages, packagesToBuild, processExit, lastEdit, prevBuiltAll>>

ApplyGetBuildBatches ==
    /\ graphPc = "input"
    /\ graphPc' = "batched"
    /\ batchResult' = GetBuildBatches(BuildDependencyGraph(workspace))
    /\ UNCHANGED <<sortResult, targets, packagesWithDependencies, nodes, calls>>
    /\ UNCHANGED <<runnerVars, cacheVars, termVars, devVars, parseVars, runVars, invVars>>
    /\ UNCHANGED <<bpc, runs, skippedPackages, packagesToBuild, processExit, lastEdit, prevBuiltAll>>

ApplyCollect(keep) ==
    /\ graphPc = "input"
    /\ graphPc' = "collected"
    /\ targets' = SubList(workspace, keep)
    /\ packagesWithDependencies' = CollectPackagesWithDependencies(SubList(workspace, keep), workspace)
    /\ UNCHANGED <<sortResult, batchResult, nodes, calls>>
    /\ UNCHANGED <<runnerVars, cacheVars, termVars, devVars, parseVars, runVars, invVars>>
    /\ UNCHANGED <<bpc, runs, skippedPackages, packagesToBuild, processExit, lastEdit, prevBuiltAll>>

InitGraph ==
    /\ \E edges \in {e \in SUBSET (Range(NodeNames) \X Range(NodeNames)) : Cardinality(e) <= MaxEdges},
          dev \in BOOLEAN :
          workspace = GraphWorkspace(edges, dev)
    /\ files = <<>>
    /\ manifest = <<>>
    /\ packageCaches = <<>>
    /\ packageFileIndexes = <<>>
    /\ manifestJson = NoFile
    /\ cacheJson = <<>>
    /\ filesJson = <<>>
    /\ ops = 0
    /\ edits = 0
    /\ lastOp = NoOp
    /\ NoRunner
    /\ NoBuild

NextGraph ==
    \/ ApplyTopologicalSort
    \/ ApplyGetBuildBatches
    \/ \E keep \in SUBSET DOMAIN workspace : ApplyCollect(keep)

SpecGraph == InitGraph /\ [][NextGraph]_vars

----------------------------------------------------------------------------
(* A DependencyGraph built call by call *)

\* largest number of calls on the graph
MaxCalls == 4

\* the graph becomes what the call leaves (for filterGraph: what it returns)
GraphCall(call, graph) ==
    /\ calls < MaxCalls
    /\ calls' = calls + 1
    /\ graphPc' = call
    /\ nodes' = graph
    /\ UNCHANGED <<sortResult, batchResult, targets, packagesWithDependencies>>
    /\ UNCHANGED <<runnerVars, cacheVars, buildVars, termVars, devVars, parseVars, runVars, invVars>>

CallAddPackage(packageName) == GraphCall("addPackage", AddPackage(nodes, packageName))

CallAddDependency(packageName, dependencyName) ==
    GraphCall("addDependency", AddDependency(nodes, packageName, dependencyName))

CallFilterGraph(packageNames) == GraphCall("filterGraph", FilterGraphCalls(nodes, packageNames))

\* the lists of names given to filterGraph: some of the names, in either order
NameLists ==
    {FilterSeq(NodeNames, keep) : keep \in SUBSET Range(NodeNames)}
        \cup {FilterSeq(Reverse(NodeNames), keep) : keep \in SUBSET Range(NodeNames)}

InitCalls ==
    /\ NoCache
    /\ NoRunner
    /\ NoBuild

NextCalls ==
    \/ \E packageName \in Range(NodeNames) : CallAddPackage(packageName)
    \/ \E packageName \in Range(NodeNames), dependencyName \in Range(NodeNames) :
          CallAddDependency(packageName, dependencyName)
    \/ \E packageNames \in NameLists : CallFilterGraph(packageNames)

SpecCalls == InitCalls /\ [][NextCalls]_vars

----------------------------------------------------------------------------
(* The supervisor on its own: a driver called with any command lists *)

\* command lists: the commands are numbered in submission order
RECURSIVE SumUpTo(_, _)
SumUpTo(sizes, b) == IF b = 0 THEN 0 ELSE sizes[b] + SumUpTo(sizes, b - 1)

CommandLists(sizes) ==
    [b \in DOMAIN sizes |-> [j \in 1..sizes[b] |-> j + SumUpTo(sizes, b - 1)]]

BatchSizes ==
    {sizes \in UNION {[1..n -> 0..MaxCommands] : n \in 1..MaxBatches} :
        SumUpTo(sizes, Len(sizes)) <= MaxCommands}

RunnerStart(m, bs, n) ==
    /\ mode = m
    /\ batches = bs
    /\ concurrency = n
    /\ pc = CASE m = "parallel" -> (IF Len(bs[1]) = 0 THEN "waitAll" ELSE "parLoop")
              [] m = "sequential" -> "seqLoop"
              [] OTHER -> "batchLoop"
    /\ bi = 1
    /\ ci = 1
    /\ executing = <<>>
    /\ results = <<>>
    /\ allResults = <<>>
    /\ returned = <<>>
    /\ completedIndex = 0
    /\ activeChildren = {}
    /\ settled = [c \in Range(Flatten(bs)) |-> NoResult]
    /\ spawned = <<>>
    /\ ending = [c \in Range(Flatten(bs)) |-> NoEnding]

InitRunner ==
    \E m \in {"parallel", "sequential", "batches"}, sizes \in BatchSizes, n \in 1..MaxConcurrency :
        /\ (m # "batches" => Len(sizes) = 1)
        /\ RunnerStart(m, CommandLists(sizes), n)
        /\ NoCache
        /\ NoBuild

NextRunner ==
    \/ \E cmd \in AllCommands, e \in Endings : ChildEnd(cmd, e)
    \/ ParStart
    \/ ParCompleted
    \/ ParReturn
    \/ SeqStart
    \/ SeqCompleted
    \/ SeqEmpty
    \/ BatchStart
    \/ BatchCompleted

SpecRunner == InitRunner /\ [][NextRunner]_vars

----------------------------------------------------------------------------
(* ProcessRunner.terminateAll, called from a signal handler while children run *)

\* the signals a caller passes
Signals == {"SIGTERM", "SIGINT"}

\* the event loop takes the next event: no continuation of the driver is pending
EventLoopIdle == (Suspended /\ ~ContinuationPending) \/ pc = "done"

\* terminateAll(signal, graceMs) up to the await: children is a copy of
\* activeChildren; return when it is empty; child.kill(signal) for each; for
\* each a once('close') listener and a timer of graceMs
TerminateAll(signal) ==
    /\ termPc = "idle"
    /\ EventLoopIdle
    /\ termChildren' = activeChildren
    /\ signalled' = {<<child, signal>> : child \in activeChildren}
    /\ timers' = activeChildren
    /\ termPc' = IF activeChildren = {} THEN "returned" ELSE "waiting"
    /\ UNCHANGED killed
    /\ UNCHANGED <<runnerVars, cacheVars, buildVars, graphVars, devVars, parseVars, runVars, invVars>>

\* the flag settled of a child when its timer fires: onClose ran, that is, the
\* child emitted 'close' after the listener was registered
TermSettledMutant(child) == FALSE
TermSettled(child) == ending[child].kind \in {"exit", "signal"}

\* the timer of a child fires after graceMs: child.kill('SIGKILL') unless settled
GraceElapsed(child) ==
    /\ termPc = "waiting"
    /\ EventLoopIdle
    /\ child \in timers
    /\ timers' = timers \ {child}
    /\ killed' = IF TermSettled(child) THEN killed ELSE killed \cup {child}
    /\ UNCHANGED <<termPc, termChildren, signalled>>
    /\ UNCHANGED <<runnerVars, cacheVars, buildVars, graphVars, devVars, parseVars, runVars, invVars>>

\* await Promise.all(...) resumes: every child closed or had its timer fire
TerminateReturnMutant ==
    /\ termPc = "waiting"
    /\ \A child \in termChildren : TermSettled(child)
    /\ termPc' = "returned"
    /\ UNCHANGED <<termChildren, timers, signalled, killed>>
    /\ UNCHANGED <<runnerVars, cacheVars, buildVars, graphVars, devVars, parseVars, runVars, invVars>>
TerminateReturn ==
    /\ termPc = "waiting"
    /\ \A child \in termChildren : TermSettled(child) \/ child \notin timers
    /\ termPc' = "returned"
    /\ UNCHANGED <<termChildren, timers, signalled, killed>>
    /\ UNCHANGED <<runnerVars, cacheVars, buildVars, graphVars, devVars, parseVars, runVars, invVars>>

\* the ways a child ends while terminateAll waits: success, a failure, a
\* signal, an error
TermEndings == {e \in Endings : e.kind = "exit" => e.code \in {0, MaxExitCode}}

InitTerminate ==
    \E n \in 1..MaxCommands, c \in {1, MaxConcurrency} :
        /\ RunnerStart("parallel", CommandLists(<<n>>), c)
        /\ NoCache
        /\ NoBuild

NextTerminate ==
    \/ \E signal \in Signals : TerminateAll(signal)
    \/ \E child \in AllCommands : GraceElapsed(child)
    \/ TerminateReturn
    \/ \E cmd \in AllCommands, e \in TermEndings : ChildEnd(cmd, e)
    \/ ParStart
    \/ ParCompleted
    \/ ParReturn

SpecTerminate == InitTerminate /\ [][NextTerminate]_vars

\* the event loop: a timer that is due fires (setTimeout), a promise that is
\* resolved has its continuation run; a child may never end
FairTerminate ==
    /\ \A child \in 1..MaxCommands : WF_vars(GraceElapsed(child))
    /\ WF_vars(TerminateReturn)
    /\ WF_vars(ParStart)
    /\ WF_vars(ParCompleted)
    /\ WF_vars(ParReturn)

SpecTerminateFair == InitTerminate /\ [][NextTerminate]_vars /\ FairTerminate

----------------------------------------------------------------------------
(* devCommand: the dev servers, the shutdown handler *)

\* let isShuttingDown: set by the first run of shutdown, which calls terminateAll
isShuttingDown == termPc # "idle"

\* Math.min(concurrency, promises.length)
AwaitedCount == IF concurrency < Len(batches[1]) THEN concurrency ELSE Len(batches[1])

\* commands.map(cmd => ProcessRunner.runCommand(...)) spawns every command;
\* await Promise.allSettled(promises.slice(0, Math.min(concurrency, promises.length)))
DevStart ==
    /\ devPc = "idle"
    /\ mode = "dev"
    /\ activeChildren' = activeChildren \cup Range(batches[1])
    /\ spawned' = spawned \o batches[1]
    /\ executing' = SubSeq(batches[1], 1, AwaitedCount)
    /\ pc' = "waitAll"
    /\ devPc' = "running"
    /\ UNCHANGED <<mode, batches, concurrency, bi, ci, results, allResults, returned,
                   completedIndex, settled, ending>>
    /\ UNCHANGED <<cacheVars, buildVars, graphVars, termVars, devExit, parseVars, runVars, invVars>>

\* childProcess.on('close') / childProcess.on('error') of a dev server
DevChildEnd(cmd, e) ==
    /\ devPc = "running"
    /\ EventLoopIdle
    /\ cmd \in activeChildren
    /\ activeChildren' = activeChildren \ {cmd}
    /\ settled' = [settled EXCEPT ![cmd] = ResultOf(cmd, e)]
    /\ ending' = [ending EXCEPT ![cmd] = e]
    /\ UNCHANGED <<mode, batches, concurrency, pc, bi, ci, executing, results, allResults,
                   returned, completedIndex, spawned>>
    /\ UNCHANGED nonRunnerVars

\* Promise.allSettled resumes: the warnings are printed and devCommand returns
DevResume ==
    /\ devPc = "running"
    /\ pc = "waitAll"
    /\ AllSettled
    /\ pc' = "done"
    /\ UNCHANGED <<mode, batches, concurrency, bi, ci, executing, results, allResults,
                   returned, completedIndex, activeChildren, settled, spawned, ending>>
    /\ UNCHANGED nonRunnerVars

\* process.on('SIGINT', shutdown); process.on('SIGTERM', shutdown): the first
\* signal calls ProcessRunner.terminateAll('SIGTERM', 5000), later ones return
DevShutdown(received) ==
    /\ devPc = "running"
    /\ received \in Signals
    /\ ~isShuttingDown
    /\ TerminateAll("SIGTERM")

\* the timer of a child fires while the dev process is alive
DevGraceElapsed(child) ==
    /\ devPc = "running"
    /\ GraceElapsed(child)

\* terminateAll returns while the dev process is alive
DevTerminateReturn ==
    /\ devPc = "running"
    /\ TerminateReturn

\* ProcessRunner.terminateAll(...).then(() => process.exit(0))
DevExitMutant ==
    /\ devPc = "running"
    /\ isShuttingDown
    /\ devPc' = "exited"
    /\ devExit' = 0
    /\ UNCHANGED <<runnerVars, cacheVars, buildVars, graphVars, termVars, parseVars, runVars, invVars>>
DevExit ==
    /\ devPc = "running"
    /\ termPc = "returned"
    /\ devPc' = "exited"
    /\ devExit' = 0
    /\ UNCHANGED <<runnerVars, cacheVars, buildVars, graphVars, termVars, parseVars, runVars, invVars>>

\* setTimeout(() => process.exit(0), 6000) in shutdown: in timer order it is due
\* after the timers of 5000 ms that terminateAll set before it
DevFallback ==
    /\ devPc = "running"
    /\ isShuttingDown
    /\ timers = {}
    /\ devPc' = "exited"
    /\ devExit' = 0
    /\ UNCHANGED <<runnerVars, cacheVars, buildVars, graphVars, termVars, parseVars, runVars, invVars>>

\* devCommand has returned and no child is left: the process ends by itself
DevEnd ==
    /\ devPc = "running"
    /\ pc = "done"
    /\ activeChildren = {}
    /\ ~isShuttingDown
    /\ devPc' = "exited"
    /\ devExit' = 0
    /\ UNCHANGED <<runnerVars, cacheVars, buildVars, graphVars, termVars, parseVars, runVars, invVars>>

\* packagesWithDev is not empty (else process.exit(1) before anything is spawned)
InitDev ==
    \E n \in 1..MaxCommands, c \in {1, MaxConcurrency} :
        /\ mode = "dev"
        /\ batches = CommandLists(<<n>>)
        /\ concurrency = c
        /\ pc = "none"
        /\ bi = 1
        /\ ci = 1
        /\ executing = <<>>
        /\ results = <<>>
        /\ allResults = <<>>
        /\ returned = <<>>
        /\ completedIndex = 0
        /\ activeChildren = {}
        /\ settled = [cmd \in 1..n |-> NoResult]
        /\ spawned = <<>>
        /\ ending = [cmd \in 1..n |-> NoEnding]
        /\ NoCache
        /\ NoBuild

NextDev ==
    \/ DevStart
    \/ \E cmd \in AllCommands, e \in TermEndings : DevChildEnd(cmd, e)
    \/ DevResume
    \/ \E received \in Signals : DevShutdown(received)
    \/ \E child \in AllCommands : DevGraceElapsed(child)
    \/ DevTerminateReturn
    \/ DevExit
    \/ DevFallback
    \/ DevEnd

\* the event loop: due timers fire and resolved promises have their
\* continuations run; no child has to end and no signal has to arrive
FairDev ==
    /\ WF_vars(DevStart)
    /\ WF_vars(DevResume)
    /\ \A child \in 1..MaxCommands : WF_vars(DevGraceElapsed(child))
    /\ WF_vars(DevTerminateReturn)
    /\ WF_vars(DevExit)

SpecDev == InitDev /\ [][NextDev]_vars /\ FairDev

----------------------------------------------------------------------------
(* initialize() on the .wsu/ an earlier process left behind *)

\* a BuildCache before initialize(): nothing in memory, the given files on disk
NewCache(names, manifestFile, cacheFiles) ==
    [manifest |-> <<>>,
     packageCaches |-> [n \in names |-> NoEntry],
     packageFileIndexes |-> [n \in names |-> NoIndex],
     manifestJson |-> manifestFile,
     cacheJson |-> cacheFiles,
     filesJson |-> [n \in names |-> NoIndex]]

\* the cache.json that update writes for the package in a new cache
WrittenEntry(packages, name) ==
    Update(NewCache(PackageNames(packages), NoFile, [n \in PackageNames(packages) |-> NoEntry]),
           PackageOf(packages, name)).cacheJson[name]

\* .wsu/ as an earlier process left it: a manifest.json listing some packages
\* and a cache.json for some packages (a process that is killed between the
\* rmSync and the saveManifest of invalidatePackage, or between the
\* writeFileSync and the saveManifest of savePackageCache, leaves the two apart)
InitLoad ==
    \E packages \in {Diamond, Chain} :
        \E listed \in SUBSET DOMAIN packages, stored \in SUBSET PackageNames(packages) :
            /\ workspace = packages
            /\ files = [n \in PackageNames(packages) |-> [f \in FileNames |-> InitialFile]]
            /\ SetInitial(NewCache(PackageNames(packages),
                                   Names(SubList(packages, listed)),
                                   [n \in PackageNames(packages) |->
                                       IF n \in stored THEN WrittenEntry(packages, n)
                                       ELSE NoEntry]))
            /\ ops = 0
            /\ edits = 0
            /\ lastOp = NoOp
            /\ NoRunner
            /\ NoBuild

\* await cache.initialize(), once per BuildCache
CacheInitialize ==
    /\ lastOp = NoOp
    /\ CacheOp("initialize", "none", Initialize(CacheState))

NextLoad ==
    \/ CacheInitialize
    \/ \E k \in DOMAIN workspace : lastOp # NoOp /\ CacheUpdate(k)
    \/ \E name \in PackageNames(workspace) : lastOp # NoOp /\ CacheInvalidatePackage(name)
    \/ lastOp # NoOp /\ CacheClear

SpecLoad == InitLoad /\ [][NextLoad]_vars

----------------------------------------------------------------------------
(* `build` run again and again with no file change and every build succeeding *)

\* any .wsu/ at the start, the files as they stay
InitRepeat ==
    /\ \E packages \in {Diamond, Chain} :
          \E listed \in SUBSET DOMAIN packages, stored \in SUBSET PackageNames(packages) :
              /\ workspace = packages
              /\ files = [n \in PackageNames(packages) |-> [f \in FileNames |-> InitialFile]]
              /\ SetInitial(NewCache(PackageNames(packages),
                                     Names(SubList(packages, listed)),
                                     [n \in PackageNames(packages) |->
                                         IF n \in stored THEN WrittenEntry(packages, n)
                                         ELSE NoEntry]))
    /\ ops = 0
    /\ edits = 0
    /\ lastOp = NoOp
    /\ mode = "none"
    /\ batches = <<>>
    /\ concurrency = MaxConcurrency
    /\ pc = "none"
    /\ bi = 1
    /\ ci = 1
    /\ executing = <<>>
    /\ results = <<>>
    /\ allResults = <<>>
    /\ returned = <<>>
    /\ completedIndex = 0
    /\ activeChildren = {}
    /\ settled = <<>>
    /\ spawned = <<>>
    /\ ending = <<>>
    /\ NoBuild

\* a build script that succeeds: the child exits with code 0
BuildSucceeds(cmd) == ChildEnd(cmd, [kind |-> "exit", code |-> 0])

NextRepeat ==
    \/ BuildPlan
    \/ BuildFinish
    \/ \E cmd \in AllCommands : BuildSucceeds(cmd)
    \/ ParStart
    \/ ParCompleted
    \/ BatchStart
    \/ BatchCompleted

SpecRepeat == InitRepeat /\ [][NextRepeat]_vars

----------------------------------------------------------------------------
(* WorkspaceParser.parseWorkspace *)

\* largest number of member directories
MaxMembers == 3

\* a package.json without a name
NoName == "<none>"

\* the package.json files of a member directory: a name or none, dependencies
PackageJsons ==
    {[name |-> n, dependencies |-> d, devDependencies |-> <<>>, scripts |-> {"build"}] :
        n \in {"a", "b", NoName}, d \in {<<>>, <<"a">>}}

\* the member directories that resolvePackagePaths returns (distinct paths,
\* each with a package.json), as the list of their package.json files
MemberDirLists == UNION {[1..n -> PackageJsons] : n \in 0..MaxMembers}

\* loadPackageInfo(packagePath) of a package.json that has a name
LoadPackageInfo(packageJson) ==
    PackageInfo(packageJson.name, packageJson.dependencies, packageJson.devDependencies,
                packageJson.scripts)

\* parseWorkspace(): loadPackageInfo of every path (it throws for a package.json
\* without a name), the packages in the order of the paths
ParseWorkspace(dirs) ==
    /\ parsePc = "idle"
    /\ memberDirs' = dirs
    /\ IF \E k \in DOMAIN dirs : dirs[k].name = NoName
       THEN /\ parsePc' = "failed"
            /\ UNCHANGED workspace
       ELSE /\ parsePc' = "loaded"
            /\ workspace' = [k \in DOMAIN dirs |-> LoadPackageInfo(dirs[k])]
    /\ UNCHANGED <<files, manifest, packageCaches, packageFileIndexes, manifestJson,
                   cacheJson, filesJson, ops, edits, lastOp>>
    /\ UNCHANGED <<runnerVars, buildVars, graphVars, termVars, devVars, runVars, invVars>>

InitParse ==
    /\ NoCache
    /\ NoRunner
    /\ NoBuild

NextParse == \E dirs \in MemberDirLists : ParseWorkspace(dirs)

SpecParse == InitParse /\ [][NextParse]_vars

----------------------------------------------------------------------------
(* runCommand of the `run` command: a script across the packages *)

\* a workspace whose packages define different scripts
Tooling ==
    << PackageInfo("app", <<"lib">>, <<>>, {"build", "test"}),
       PackageInfo("base", <<>>, <<>>, {"build"}),
       PackageInfo("lib", <<"base">>, <<>>, {"test"}) >>

ScriptNames == {"build", "test", "lint"}

\* parser.filterPackages(workspace.packages, options.filter): the packages whose
\* name the pattern matches, in workspace order; `matching` is the set of names
\* the pattern matches
FilterPackages(packages, matching) ==
    LET keep == {k \in DOMAIN packages : packages[k].name \in matching}
    IN  [k \in 1..Cardinality(keep) |->
            packages[CHOOSE i \in keep : Cardinality({j \in keep : j < i}) = k - 1]]

\* validatePackagesHaveScript(packages, scriptName).valid
ValidatePackagesHaveScript(packages, scriptName) ==
    LET keep == {k \in DOMAIN packages : scriptName \in packages[k].scripts}
    IN  [k \in 1..Cardinality(keep) |->
            packages[CHOOSE i \in keep : Cardinality({j \in keep : j < i}) = k - 1]]

\* runCommand(scriptName, options) up to the call of the driver: process.exit(1)
\* when no targeted package has the script, else runParallel (the default) or
\* runSequential with one command per package that has it
RunCommand(packages, scriptName, matching, sequential, n) ==
    /\ runPc = "idle"
    /\ workspace' = packages
    /\ runArgs' = [scriptName |-> scriptName, filter |-> matching]
    /\ LET packagesWithScript ==
               ValidatePackagesHaveScript(FilterPackages(packages, matching), scriptName)
           commands == [k \in DOMAIN packagesWithScript |-> packagesWithScript[k].name]
       IN  IF Len(packagesWithScript) = 0
           THEN /\ runPc' = "exited"
                /\ runExit' = 1
                /\ UNCHANGED runnerVars
           ELSE /\ runPc' = "running"
                /\ UNCHANGED runExit
                /\ mode' = IF sequential THEN "sequential" ELSE "parallel"
                /\ batches' = <<commands>>
                /\ concurrency' = n
                /\ pc' = IF sequential THEN "seqLoop" ELSE "parLoop"
                /\ settled' = [c \in Range(commands) |-> NoResult]
                /\ ending' = [c \in Range(commands) |-> NoEnding]
                /\ UNCHANGED <<bi, ci, executing, results, allResults, returned,
                               completedIndex, activeChildren, spawned>>
    /\ UNCHANGED <<files, manifest, packageCaches, packageFileIndexes, manifestJson,
                   cacheJson, filesJson, ops, edits, lastOp>>
    /\ UNCHANGED <<buildVars, graphVars, termVars, devVars, parseVars, invVars>>

\* const failed = results.filter((r) => !r.success);
\* if (failed.length > 0) process.exit(1); otherwise the process ends with code 0
RunExitCode(res) == IF \E k \in DOMAIN res : ~res[k].success THEN 1 ELSE 0

\* the driver returned: the summary and the exit
RunExit ==
    /\ runPc = "running"
    /\ pc = "done"
    /\ runPc' = "exited"
    /\ runExit' = RunExitCode(returned)
    /\ UNCHANGED <<runnerVars, cacheVars, buildVars, graphVars, termVars, devVars, parseVars,
                   runArgs, invVars>>

InitRun == NoRunner /\ NoCache /\ NoBuild

NextRun ==
    \/ \E scriptName \in ScriptNames, matching \in SUBSET PackageNames(Tooling),
          sequential \in BOOLEAN, n \in 1..MaxConcurrency :
            RunCommand(Tooling, scriptName, matching, sequential, n)
    \/ \E cmd \in AllCommands, e \in Endings : ChildEnd(cmd, e)
    \/ ParStart
    \/ ParCompleted
    \/ ParReturn
    \/ SeqStart
    \/ SeqCompleted
    \/ RunExit

SpecRun == InitRun /\ [][NextRun]_vars

----------------------------------------------------------------------------
(* BuildCache.invalidateDependents, one loop iteration at a time *)

\* a -> b -> c -> a, and c lists itself as a devDependency
Ring ==
    << PackageInfo("a", <<"b">>, <<>>, {"build"}),
       PackageInfo("b", <<"c">>, <<>>, {"build"}),
       PackageInfo("c", <<"a">>, <<"c">>, {"build"}) >>

\* a cache in which update was called for the packages `cached`, in workspace order
InitInvalidate ==
    /\ \E packages \in {Diamond, Ring, SelfRef} :
          \E cached \in SUBSET DOMAIN packages :
              /\ workspace = packages
              /\ files = [n \in PackageNames(packages) |-> [f \in FileNames |-> InitialFile]]
              /\ SetInitial(UpdateAll(NewCache(PackageNames(packages), NoFile,
                                               [n \in PackageNames(packages) |-> NoEntry]),
                                      Names(SubList(packages, cached)), 1))
    /\ ops = 0
    /\ edits = 0
    /\ lastOp = NoOp
    /\ NoRunner
    /\ NoBuild

\* the frame of a call invalidateDependents(name, packages): its dependents and
\* the index of the loop over them
Frame(name) == [dependents |-> DependentsOf(workspace, name), k |-> 1]

\* cache.invalidateDependents(name, packages) is called
InvalidateDependentsCall(name) ==
    /\ invCall = NoCall
    /\ invCall' = [name |-> name, cache |-> CacheState]
    /\ invStack' = <<Frame(name)>>
    /\ UNCHANGED invRemoved
    /\ UNCHANGED <<runnerVars, cacheVars, buildVars, graphVars, termVars, devVars, parseVars, runVars>>

\* if (this.packageCaches.has(dependent.name))
IsCachedMutant(name) == TRUE
IsCached(name) == Has(CacheState, name)

\* one iteration of the loop of the innermost call: a cached dependent is
\* invalidated and invalidateDependents is called for it; after the last
\* dependent the call returns
InvalidateDependentsStep ==
    /\ invStack # <<>>
    /\ LET top == invStack[Len(invStack)]
           rest == SubSeq(invStack, 1, Len(invStack) - 1)
       IN  IF top.k > Len(top.dependents)
           THEN /\ invStack' = rest
                /\ UNCHANGED <<invRemoved, manifest, packageCaches, packageFileIndexes,
                               manifestJson, cacheJson, filesJson>>
           ELSE LET dependent == top.dependents[top.k]
                    advanced == Append(rest, [top EXCEPT !.k = @ + 1])
                IN  IF IsCached(dependent)
                    THEN /\ SetCache(InvalidatePackage(CacheState, dependent))
                         /\ invRemoved' = Append(invRemoved, dependent)
                         /\ invStack' = Append(advanced, Frame(dependent))
                    ELSE /\ invStack' = advanced
                         /\ UNCHANGED <<invRemoved, manifest, packageCaches, packageFileIndexes,
                                        manifestJson, cacheJson, filesJson>>
    /\ UNCHANGED <<invCall, workspace, files, ops, edits, lastOp>>
    /\ UNCHANGED <<runnerVars, buildVars, graphVars, termVars, devVars, parseVars, runVars>>

NextInvalidate ==
    \/ \E name \in PackageNames(workspace) : InvalidateDependentsCall(name)
    \/ InvalidateDependentsStep

\* the call is synchronous: its next iteration is taken
SpecInvalidate == InitInvalidate /\ [][NextInvalidate]_vars /\ WF_vars(InvalidateDependentsStep)

----------------------------------------------------------------------------
(* Properties of the supervisor *)

ResultNames(rs) == [k \in DOMAIN rs |-> rs[k].packageName]

Submitted == Flatten(batches)

BatchOf(cmd) == CHOOSE b \in DOMAIN batches : cmd \in Range(batches[b])

Exited(cmd) == settled[cmd] # NoResult

HasReturned == pc = "done"

\* C4: the result list of runParallel and of runBatches is in submission order:
\* a result never precedes the result of a command submitted before it.
C4_SubmissionOrder ==
    (mode \in {"parallel", "batches"} /\ HasReturned) =>
        \A j, k \in DOMAIN returned :
            j < k => IndexOf(Submitted, returned[j].packageName) < IndexOf(Submitted, returned[k].packageName)

\* C5: while runParallel runs (called directly or for a batch), at most
\* `concurrency` of its children are live.
C5_ConcurrencyBound ==
    mode \in {"parallel", "batches"} => Cardinality(activeChildren) <= concurrency

\* the bound was reached with commands still to start, after an earlier child exited
C5_Witness ==
    /\ mode = "parallel"
    /\ concurrency < Len(CurrentBatch)
    /\ Cardinality(activeChildren) = concurrency
    /\ Len(results) > 0

\* C6: a command of a later batch is spawned only when every command of every
\* earlier batch has exited successfully, and runBatches returns exactly one result
\* for each command of the batches up to and including the first failed batch (all
\* batches when none failed), and none for the later ones.
FailedBatches == {b \in DOMAIN batches : \E c \in Range(batches[b]) : Exited(c) /\ ~settled[c].success}

LastBatchRun == IF FailedBatches = {} THEN Len(batches)
                ELSE CHOOSE b \in FailedBatches : \A b2 \in FailedBatches : b <= b2

C8_ParallelRunsAll ==
    (mode = "parallel" /\ HasReturned) =>
        /\ Range(spawned) = AllCommands
        /\ activeChildren = {}
        /\ \A c \in AllCommands : Exited(c)
        /\ Len(returned) = Len(Submitted)
        /\ Range(ResultNames(returned)) = AllCommands
        /\ \A k \in DOMAIN returned : returned[k] = settled[returned[k].packageName]

\* runParallel returned three results although the first command had failed before
\* the last one was started
C8_Witness ==
    /\ mode = "parallel"
    /\ HasReturned
    /\ Len(Submitted) = 3 /\ concurrency = 2
    /\ Len(returned) = 3
    /\ ~returned[1].success
    /\ returned[1].packageName = 1

\* C9: the result of runCommand has success = TRUE exactly when the child exited
\* with exit code 0.
C9_SuccessIffExitZero ==
    \A c \in AllCommands :
        Exited(c) => (settled[c].success <=> ending[c] = [kind |-> "exit", code |-> 0])

----------------------------------------------------------------------------
(* The build cache and the build command *)

\* the names of the packages that list name, directly or through other
\* packages, as a dependency or devDependency
RECURSIVE DependentsClosure(_, _)
DependentsClosure(packages, found) ==
    LET more == {packages[k].name : k \in {j \in DOMAIN packages :
                    \E d \in Range(AllDeps(packages[j])) : d \in found}}
    IN  IF more \subseteq found THEN found ELSE DependentsClosure(packages, found \cup more)

TransitiveDependents(packages, name) ==
    LET direct == {packages[k].name : k \in {j \in DOMAIN packages :
                      name \in Range(AllDeps(packages[j]))}}
    IN  IF direct = {} THEN {} ELSE DependentsClosure(packages, direct)

\* the state right after the cache check of the invocation that follows the edit
PlannedAfterEdit == lastEdit # NoEdit /\ runs = lastEdit.run + 1

\* C1: where every package had a valid cache entry and a non-ignored file of a
\* package P was then modified, the next build invocation puts P and every
\* package that depends on P, directly or transitively, among the packages to
\* build, and reports none of them as cached
C1_DependentsRebuilt ==
    (PlannedAfterEdit /\ lastEdit.allValid /\ lastEdit.file \notin GitIgnored)
        => \A q \in {lastEdit.name} \cup TransitiveDependents(workspace, lastEdit.name) :
              q \in Range(packagesToBuild) /\ q \notin Range(skippedPackages)

\* C2: the build invocation that follows, with no file change, an invocation in
\* which every package was built successfully spawns no child process, reports
\* every package as cached and exits 0
C2_SecondRunSkipsAll ==
    (prevBuiltAll # 0 /\ runs = prevBuiltAll + 1)
        => /\ spawned = <<>>
           /\ Range(skippedPackages) = PackageNames(workspace)
           /\ bpc = "exited"
           /\ processExit = 0

\* C3: when a build invocation has ended, every package whose build succeeded in
\* it has a cache entry
C3_SuccessfulAreCached ==
    bpc = "exited"
        => \A k \in DOMAIN returned :
              returned[k].success => Has(CacheState, returned[k].packageName)

\* C10: after invalidateDependents(P) no package that lists P, directly or
\* transitively, as a dependency or devDependency has a cache entry
C10_NoDependentCached ==
    lastOp.op = "invalidateDependents"
        => \A q \in TransitiveDependents(workspace, lastOp.name) : ~Has(CacheState, q)

----------------------------------------------------------------------------
(* The input hash *)

\* the part of an input hash that comes from the files of the package itself
FileHashes(hash) == [packageJson |-> hash[2].packageJson, sources |-> hash[2].sources]

\* C11: a package P whose entry was computed against the input hash h of a
\* workspace dependency D is not valid once the files of D hash to something
\* else than in h
C11_DependencySensitivity ==
    \A k \in DOMAIN workspace :
        Has(CacheState, workspace[k].name) =>
            \A pair \in packageCaches[workspace[k].name].dependencyHashes :
                (/\ pair[1] \in PackageNames(workspace)
                 /\ pair[2] # Missing
                 /\ FileHashes(CalculatePackageHash(CacheState, PackageOf(workspace, pair[1])))
                        # FileHashes(pair[2]))
                    => ~IsValid(CacheState, workspace[k])

\* C12: a package is valid only if the file hashes in its entry are the hashes
\* of the present content of package.json and of every non-ignored file, that
\* is, no content was modified since update
C12_ChangeSensitivity ==
    \A k \in DOMAIN workspace :
        IsValid(CacheState, workspace[k]) =>
            FileHashes(packageCaches[workspace[k].name].inputHash)
                = [packageJson |-> Sha256(files[workspace[k].name]["package.json"].content),
                   sources |-> {<<f, Sha256(files[workspace[k].name][f].content)>> : f \in SourceFiles}]

\* C13: update(P) immediately followed by isValid(P) gives true, and isValid(P)
\* is false for a package without a cache entry
C13_RoundTrip ==
    [][/\ \A k \in DOMAIN workspace :
             ~Has(CacheState, workspace[k].name) => ~IsValid(CacheState, workspace[k])
       /\ \A k \in DOMAIN workspace :
             CacheUpdate(k) => (IsValid(CacheState, workspace[k]))']_vars

----------------------------------------------------------------------------
(* Dependency cycles in the build set *)

\* some package of the build set depends, directly or transitively, on itself
CycleInBuildSet ==
    \E k \in DOMAIN PackagesWithBuild :
        PackagesWithBuild[k].name \in TransitiveDependents(PackagesWithBuild, PackagesWithBuild[k].name)

\* the last invocation read the package.json files as they are now
PlannedOnWorkspace == runs >= 1 /\ (lastEdit = NoEdit \/ runs > lastEdit.run)

\* C14: an invocation on a build set with a dependency cycle exits with a
\* non-zero code and spawns no build process, whatever the cache holds
C14_CycleIsFatal ==
    (PlannedOnWorkspace /\ CycleInBuildSet)
        => /\ spawned = <<>>
           /\ bpc = "exited"
           /\ processExit # 0

----------------------------------------------------------------------------
(* The graph functions *)

\* the package name lies on a dependency cycle of the workspace
OnCycle(name) == name \in TransitiveDependents(workspace, name)

Acyclic == \A n \in PackageNames(workspace) : ~OnCycle(n)

\* the workspace packages that name lists as dependency or devDependency
WorkspaceDeps(name) == Range(AllDeps(PackageOf(workspace, name))) \cap PackageNames(workspace)

\* C15: every package that lies on a dependency cycle appears in at least one
\* of the cycles topologicalSort reports
C15_CyclesCoverNodes ==
    graphPc = "sorted"
        => \A n \in PackageNames(workspace) :
              OnCycle(n) => \E i \in DOMAIN sortResult.cycles : n \in Range(sortResult.cycles[i])

\* the index of the batch that holds the package
BatchIndex(name) == CHOOSE i \in DOMAIN batchResult.batches : name \in Range(batchResult.batches[i])

\* the level of a package: 1 without workspace dependencies, else one more than
\* the highest level among its dependencies (batch k of the code is level k + 1)
RECURSIVE Level(_)
Level(name) ==
    IF WorkspaceDeps(name) = {} THEN 1
    ELSE 1 + (CHOOSE l \in {Level(d) : d \in WorkspaceDeps(name)} :
                 \A d \in WorkspaceDeps(name) : Level(d) <= l)

\* C16: for an acyclic graph getBuildBatches puts every package in exactly one
\* batch, and in the batch of its level: the first without dependencies, else the
\* one right after the last batch that holds one of its dependencies
C16_BatchLevels ==
    (graphPc = "batched" /\ Acyclic)
        => /\ batchResult.ok
           /\ Len(Flatten(batchResult.batches)) = Len(workspace)
           /\ Range(Flatten(batchResult.batches)) = PackageNames(workspace)
           /\ \A n \in PackageNames(workspace) : BatchIndex(n) = Level(n)

C16_Witness ==
    /\ graphPc = "batched"
    /\ Acyclic
    /\ Len(batchResult.batches) = MaxNodes
    /\ \E n \in PackageNames(workspace) : Cardinality(WorkspaceDeps(n)) >= 2

\* C17: for an acyclic graph topologicalSort returns no cycle and an order that
\* holds every package exactly once, each after all of its dependencies
C17_TopologicalOrder ==
    (graphPc = "sorted" /\ Acyclic)
        => /\ sortResult.cycles = <<>>
           /\ Len(sortResult.order) = Len(workspace)
           /\ Range(sortResult.order) = PackageNames(workspace)
           /\ \A n \in PackageNames(workspace) : \A d \in WorkspaceDeps(n) :
                 IndexOf(sortResult.order, d) < IndexOf(sortResult.order, n)

C17_Witness ==
    /\ graphPc = "sorted"
    /\ Acyclic
    /\ Len(sortResult.order) = MaxNodes
    /\ \E n \in PackageNames(workspace) : Cardinality(WorkspaceDeps(n)) >= 2
    /\ sortResult.order # [k \in DOMAIN workspace |-> workspace[k].name]

\* the least set of package names that contains names and is closed under the
\* workspace dependencies and devDependencies
RECURSIVE DependencyClosure(_)
DependencyClosure(names) ==
    LET more == names \cup UNION {WorkspaceDeps(n) : n \in names}
    IN  IF more = names THEN names ELSE DependencyClosure(more)

\* C18: the build set is the least set that contains the targets and is closed
\* under workspace dependencies, it lists no package twice, and closing it again
\* gives the same set
C18_BuildSetIsClosure ==
    graphPc = "collected"
        => /\ PackageNames(packagesWithDependencies) = DependencyClosure(PackageNames(targets))
           /\ Cardinality(PackageNames(packagesWithDependencies)) = Len(packagesWithDependencies)
           /\ PackageNames(CollectPackagesWithDependencies(packagesWithDependencies, workspace))
                 = PackageNames(packagesWithDependencies)

C18_Witness ==
    /\ graphPc = "collected"
    /\ Len(targets) = 1
    /\ Len(packagesWithDependencies) = MaxNodes
    /\ \E k \in DOMAIN workspace : workspace[k].devDependencies # <<>>

----------------------------------------------------------------------------
(* The order of the build processes *)

\* C19: when the build process of a package has been started, the build process
\* of each of its direct workspace dependencies built in the same invocation has
\* exited with code 0
C19_DependenciesBuiltFirst ==
    \A i \in DOMAIN spawned :
        \A d \in WorkspaceDeps(spawned[i]) \cap Range(packagesToBuild) :
            ending[d] = [kind |-> "exit", code |-> 0]

----------------------------------------------------------------------------
(* terminateAll *)

\* the children terminateAll sent the signal to
SignalledChildren == {pair[1] : pair \in signalled}

\* the child has emitted its close event
Closed(child) == ending[child].kind \in {"exit", "signal"}

\* C20: terminateAll sends the signal to every child that is live when it is
\* called (spawned and not ended), and when the grace time of a child elapses it
\* sends SIGKILL to the child if and only if the child has not closed; SIGKILL
\* goes to no other child and never to a closed one
C20_TerminateAll ==
    [][/\ (termPc = "idle" /\ termPc' # "idle")
             => /\ SignalledChildren' = {c \in Range(spawned) : ending[c] = NoEnding}
                /\ \E signal \in Signals : \A pair \in signalled' : pair[2] = signal
       /\ \A child \in AllCommands :
             /\ (child \in killed' /\ child \notin killed)
                   => /\ child \in SignalledChildren
                      /\ child \in timers /\ child \notin timers'
                      /\ ~Closed(child)
             /\ (child \in timers /\ child \notin timers' /\ ~Closed(child))
                   => child \in killed']_vars

C20_Witness ==
    /\ termPc = "returned"
    /\ killed # {}
    /\ \E child \in termChildren : child \notin killed /\ Closed(child)
    /\ \E child \in Range(spawned) : child \notin termChildren

\* C21: terminateAll always returns: at once when no child is live at the call;
\* otherwise it returns, and when it has returned every child that was live at
\* the call has closed or been sent SIGKILL, also when children ignore the signal
C21_TerminateAllReturns ==
    /\ [][(termPc = "idle" /\ termPc' # "idle" /\ activeChildren = {})
             => termPc' = "returned"]_vars
    /\ [](termPc = "returned"
             => \A child \in termChildren : Closed(child) \/ child \in killed)
    /\ (termPc = "waiting") ~> (termPc = "returned")

C21_Witness ==
    /\ termPc = "returned"
    /\ \E child \in killed : ending[child] = NoEnding
    /\ termChildren \ killed # {}

----------------------------------------------------------------------------
(* devCommand *)

\* the dev servers that are live: spawned and not ended
LiveChildren == {c \in Range(spawned) : ending[c] = NoEnding}

\* C22: in dev, the first SIGINT or SIGTERM makes terminateAll send SIGTERM to
\* every live dev server; the process then exits, with code 0, after every one
\* of them has closed or been sent SIGKILL, also when they ignore SIGTERM
C22_DevShutdown ==
    /\ [][(devPc = "running" /\ ~isShuttingDown /\ isShuttingDown')
             => signalled' = {<<c, "SIGTERM">> : c \in LiveChildren}]_vars
    /\ []((devPc = "exited" /\ isShuttingDown)
             => /\ devExit = 0
                /\ \A child \in termChildren : Closed(child) \/ child \in killed)
    /\ (devPc = "running" /\ isShuttingDown) ~> (devPc = "exited" /\ devExit = 0)

C22_Witness ==
    /\ devPc = "exited"
    /\ isShuttingDown
    /\ \E child \in killed : ending[child] = NoEnding
    /\ termChildren \ killed # {}

\* C23: dev --concurrency N never has more than N dev servers live at once
C23_DevConcurrencyBound == Cardinality(activeChildren) <= concurrency

\* C24: in dev, when a dev server fails, all the other dev servers are stopped
C24_StopAllOnFailure ==
    (\E c \in Range(spawned) : ending[c] # NoEnding /\ ~settled[c].success)
        ~> (activeChildren \subseteq SignalledChildren)

----------------------------------------------------------------------------
(* The cache after a build *)

\* the build run gave the package a new cache entry or replaced its entry
EntryWritten(name) ==
    \/ cacheJson'[name] # NoEntry /\ cacheJson'[name] # cacheJson[name]
    \/ packageCaches'[name] # NoEntry /\ packageCaches'[name] # packageCaches[name]

\* C25: a build run creates or replaces the cache entry only of packages whose
\* build process succeeded (exit code 0) in that run, not of a package whose
\* build failed or was never started
C25_OnlySuccessfulWritten ==
    [][(bpc = "building" /\ bpc' = "exited")
          => \A name \in PackageNames(workspace) :
                EntryWritten(name)
                    => /\ name \in DOMAIN ending
                       /\ ending[name] = [kind |-> "exit", code |-> 0]]_vars

----------------------------------------------------------------------------
(* invalidatePackage, clear, initialize *)

\* the names listed in manifest.json (none when the file does not exist)
OnDiskManifest(json) == IF json = NoFile THEN {} ELSE Range(json)

\* C26: invalidatePackage(P) removes the in-memory entry of P, its cache.json
\* and its manifest entry (in memory and in manifest.json), and leaves the
\* files.json of P and the entry and manifest membership of every other package
\* unchanged
C26_InvalidatePackageFrame ==
    [][\A name \in PackageNames(workspace) :
          CacheInvalidatePackage(name)
              => /\ packageCaches'[name] = NoEntry
                 /\ cacheJson'[name] = NoEntry
                 /\ name \notin Range(manifest')
                 /\ name \notin OnDiskManifest(manifestJson')
                 /\ filesJson' = filesJson
                 /\ \A q \in PackageNames(workspace) \ {name} :
                       /\ packageCaches'[q] = packageCaches[q]
                       /\ cacheJson'[q] = cacheJson[q]
                       /\ (q \in Range(manifest')) = (q \in Range(manifest))
                       /\ (q \in OnDiskManifest(manifestJson'))
                              = (q \in OnDiskManifest(manifestJson))]_vars

C26_Witness ==
    /\ lastOp.op = "invalidatePackage"
    /\ lastOp.before >= 3
    /\ filesJson[lastOp.name] # NoIndex
    /\ packageCaches[lastOp.name] = NoEntry
    /\ Len(manifest) >= 2
    /\ manifest = manifestJson

\* C27: after clear(), whatever the cache held, getCachedPackages() is empty,
\* getStats().totalPackages is 0, no package is valid, and manifest.json exists
\* with an empty package list
C27_ClearEmpties ==
    [][CacheClear
          => /\ GetCachedPackages(CacheState)' = <<>>
             /\ TotalPackages(CacheState)' = 0
             /\ \A k \in DOMAIN workspace : ~(IsValid(CacheState, workspace[k]))'
             /\ manifestJson' = <<>>]_vars

C27_Witness ==
    /\ lastOp.op = "clear"
    /\ lastOp.before >= 2
    /\ manifestJson = <<>>
    /\ \A n \in PackageNames(workspace) : filesJson[n] = NoIndex

\* C28: after initialize(), a package that manifest.json names and whose
\* cache.json is missing has no entry and is not listed by getCachedPackages()
C28_MissingEntryDropped ==
    lastOp.op = "initialize"
        => \A n \in OnDiskManifest(manifestJson) :
              cacheJson[n] = NoEntry
                  => /\ ~Has(CacheState, n)
                     /\ n \notin Range(GetCachedPackages(CacheState))

----------------------------------------------------------------------------
(* The DependencyGraph as a relation *)

\* C29: after any sequence of addPackage, addDependency and filterGraph calls,
\* y is a dependent of x if and only if x is a dependency of y, and every name
\* in a dependencies or dependents set is a node of the graph
C29_GraphSymmetricAndClosed ==
    /\ DOMAIN nodes.dependencies = Range(nodes.nodes)
    /\ DOMAIN nodes.dependents = Range(nodes.nodes)
    /\ \A x \in Range(nodes.nodes) :
          /\ Range(nodes.dependencies[x]) \subseteq Range(nodes.nodes)
          /\ Range(nodes.dependents[x]) \subseteq Range(nodes.nodes)
          /\ \A y \in Range(nodes.nodes) :
                (y \in Range(nodes.dependents[x])) = (x \in Range(nodes.dependencies[y]))

C29_Witness ==
    /\ graphPc = "filterGraph"
    /\ calls = MaxCalls
    /\ Len(nodes.nodes) = 2
    /\ \E x \in Range(nodes.nodes) :
          /\ nodes.dependents[x] # <<>>
          /\ nodes.dependencies[x] # <<>>
    /\ \E x \in Range(nodes.nodes) : nodes.dependencies[x] = <<>>

----------------------------------------------------------------------------
(* The loaded workspace *)

\* two member directories declare the same package name
DuplicateName(dirs) ==
    \E j, k \in DOMAIN dirs : j # k /\ dirs[j].name = dirs[k].name /\ dirs[j].name # NoName

\* C30: loading a workspace in which two member directories declare the same
\* package name fails with an error; a workspace that was loaded never holds
\* two packages of the same name
C30_UniqueNames ==
    /\ (parsePc # "idle" /\ DuplicateName(memberDirs)) => parsePc = "failed"
    /\ parsePc = "loaded"
          => \A j, k \in DOMAIN workspace : workspace[j].name = workspace[k].name => j = k

----------------------------------------------------------------------------
(* Properties of the run command *)

ExitZero == [kind |-> "exit", code |-> 0]

\* the commands that were started
Started == Range(spawned)

\* no package that the run targets has the script
NoTargetHasScript ==
    \A k \in DOMAIN workspace :
        workspace[k].name \in runArgs.filter => runArgs.scriptName \notin workspace[k].scripts

\* C31: once `run` has exited: when no targeted package has the script it exited
\* with code 1 and spawned nothing; when a started command failed (its process
\* did not exit with code 0) it exited with code 1; and when commands were
\* started it exited with code 0 exactly when every started command exited with
\* code 0.
C31_RunExitCode ==
    runPc = "exited" =>
        /\ (NoTargetHasScript => runExit = 1 /\ spawned = <<>>)
        /\ ((\E c \in Started : ending[c] # ExitZero) => runExit = 1)
        /\ (~NoTargetHasScript => (runExit = 0 <=> \A c \in Started : ending[c] = ExitZero))

\* `run` exited with code 0 although one of its commands was killed by a signal
C31_Counterexample ==
    /\ runPc = "exited"
    /\ runExit = 0
    /\ \E c \in Started : ending[c].kind = "signal"

----------------------------------------------------------------------------
(* Further properties of the build command and of the cache *)

\* the cache in memory and in .wsu/
CacheStore == <<manifest, packageCaches, packageFileIndexes, manifestJson, cacheJson, filesJson>>

\* C33: during build a step changes the cache (in memory or in .wsu/) only while
\* no build child is live, and it changes manifest.json or a cache.json only when
\* the batched driver has returned.
C33_CacheChangesWithoutLiveChild ==
    [][/\ CacheStore' # CacheStore => activeChildren = {} /\ activeChildren' = {}
       /\ <<manifestJson, cacheJson>>' # <<manifestJson, cacheJson>> =>
              bpc = "building" /\ pc = "done"]_vars

\* a second invocation built at least two packages and wrote entries afterwards
C33_Witness ==
    /\ bpc = "exited"
    /\ runs >= 2
    /\ Len(returned) >= 2
    /\ Len(spawned) = 0 /\ activeChildren = {}
    /\ \E k \in DOMAIN returned : returned[k].success /\ Has(CacheState, returned[k].packageName)

\* the children that were spawned and have emitted neither close nor error
LiveChildrenOfRunner == {c \in Started : ending[c] = NoEnding}

\* C34: activeChildren holds exactly the children that were spawned and have not
\* yet emitted close or error; the promise of runCommand is resolved exactly when
\* that event has happened, with the result of that event, and once resolved it
\* never changes; activeChildren is empty whenever every started command has
\* its result.
C34_LiveChildren ==
    /\ [](/\ activeChildren = LiveChildrenOfRunner
          /\ \A c \in AllCommands :
                /\ settled[c] # NoResult <=> ending[c] # NoEnding
                /\ settled[c] # NoResult => c \in Started /\ settled[c] = ResultOf(c, ending[c])
          /\ (\A c \in Started : settled[c] # NoResult) => activeChildren = {})
    /\ [][\A c \in AllCommands : settled[c] # NoResult => settled'[c] = settled[c]]_vars

\* one child failed to spawn (error), a second one is live, a third one is not
\* started yet
C34_Witness ==
    /\ \E c \in Started : /\ ending[c].kind = "error"
                          /\ settled[c] = ErrorResult(c)
                          /\ c \notin activeChildren
    /\ activeChildren # {}
    /\ Started # AllCommands

\* a closed path of dependency edges: it ends at the name it starts at, and every
\* name lists the next one as a dependency
ClosedPath(cycle) ==
    /\ Len(cycle) >= 2
    /\ cycle[1] = cycle[Len(cycle)]
    /\ \A i \in 1..(Len(cycle) - 1) : cycle[i + 1] \in WorkspaceDeps(cycle[i])

\* C35: topologicalSort reports a cycle exactly when some package lies on a
\* dependency cycle (a self-dependency included), every reported cycle is a closed
\* path of dependency edges, and getBuildBatches throws exactly then, with the
\* cycles topologicalSort reports.
C35_CyclesReported ==
    /\ graphPc = "sorted" =>
          /\ sortResult.cycles # <<>> <=> ~Acyclic
          /\ \A i \in DOMAIN sortResult.cycles : ClosedPath(sortResult.cycles[i])
    /\ graphPc = "batched" =>
          /\ ~batchResult.ok <=> ~Acyclic
          /\ ~batchResult.ok => TopologicalSort(BuildDependencyGraph(workspace)).cycles # <<>>

\* a package that depends on itself next to two packages that depend on each
\* other: both cycles are reported
C35_Witness ==
    /\ graphPc = "sorted"
    /\ \E i \in DOMAIN sortResult.cycles : Len(sortResult.cycles[i]) = 2
    /\ \E i \in DOMAIN sortResult.cycles : Len(sortResult.cycles[i]) = 3

\* the cache entry of a package: in memory, its cache.json, its place in the
\* manifest
EntryOf(name) == <<packageCaches[name], cacheJson[name], name \in Range(manifest)>>

C37_TransitiveOrder ==
    [][\A a \in Range(spawned') \ Range(spawned) :
          \A c \in Range(packagesToBuild') \ {a} :
              a \in TransitiveDependents(workspace, c) => ending[c] # NoEnding]_vars

\* the last build invocation spawned nothing and reported every package as cached
AllCachedRun ==
    /\ bpc = "exited"
    /\ spawned = <<>>
    /\ packagesToBuild = <<>>
    /\ Range(skippedPackages) = PackageNames(workspace)
    /\ processExit = 0

\* the number of dependency levels of the workspace
Levels == CHOOSE l \in {Level(n) : n \in PackageNames(workspace)} :
              \A n \in PackageNames(workspace) : Level(n) <= l

\* C38: with no file change and every build succeeding, the repeated build
\* invocations reach one that spawns no child process and reports every package
\* as cached (the invocation after as many invocations as the workspace has
\* dependency levels, at the latest), and the invocation that follows such an
\* invocation does the same.
C38_EventuallyAllCached ==
    /\ []((runs > Levels /\ bpc # "idle") => AllCachedRun)
    /\ [][(AllCachedRun /\ runs' = runs + 1) => AllCachedRun']_vars

\* an invocation with everything cached, where the entry of every package was
\* written by an earlier invocation after the entries of its dependencies
C38_Witness ==
    /\ AllCachedRun
    /\ runs >= 3
    /\ \A n \in PackageNames(workspace) :
          \A d \in WorkspaceDeps(n) : <<d, Missing>> \notin packageCaches[n].dependencyHashes

\* C39: after any sequence of update, invalidatePackage, invalidateDependents and
\* clear on a cache that started from an empty .wsu/, the manifest lists no name
\* twice, and the names it lists (in memory and, once written, in manifest.json)
\* are exactly the packages with an in-memory entry, which are exactly the
\* packages with a cache.json.
C39_ManifestMatchesEntries ==
    /\ \A i, j \in DOMAIN manifest : manifest[i] = manifest[j] => i = j
    /\ Range(manifest) = {n \in PackageNames(workspace) : Has(CacheState, n)}
    /\ Range(manifest) = {n \in PackageNames(workspace) : cacheJson[n] # NoEntry}
    /\ OnDiskManifest(manifestJson) = Range(manifest)

\* an invalidation took entries away from a cache that had three and left one
\* or more in place
C39_Witness ==
    /\ lastOp.op \in {"invalidatePackage", "invalidateDependents"}
    /\ lastOp.before >= 3
    /\ TotalPackages(CacheState) < lastOp.before
    /\ Len(manifest) >= 1

----------------------------------------------------------------------------
(* The recursion of invalidateDependents *)

\* invalidateDependents has returned
InvalidateReturned == invCall # NoCall /\ invStack = <<>>

\* C40: on every dependency relation, cyclic ones and a package that depends on
\* itself included, invalidateDependents(P) passes no name twice to
\* invalidatePackage and only names that had an entry, its call stack stays
\* within the number of packages, it returns, and the cache it leaves is the one
\* the recursion computes.
C40_InvalidateTerminates ==
    /\ [](/\ \A i, j \in DOMAIN invRemoved : invRemoved[i] = invRemoved[j] => i = j
          /\ invCall # NoCall => \A i \in DOMAIN invRemoved : Has(invCall.cache, invRemoved[i])
          /\ Len(invStack) <= Len(workspace) + 1
          /\ InvalidateReturned =>
                CacheState = InvalidateDependents(invCall.cache, invCall.name, workspace))
    /\ (invCall # NoCall ~> InvalidateReturned)

\* invalidateDependents returned on the ring a -> b -> c -> a after it removed
\* the three entries, the one of the package it was called for included
C40_Witness ==
    /\ InvalidateReturned
    /\ Len(invRemoved) = 3
    /\ invCall.name \in Range(invRemoved)
    /\ invCall.name \in TransitiveDependents(workspace, invCall.name)

====
